---- MODULE Spec2Model ----
(***************************************************************************)
(* A model of liso ("Line Input with Simultaneous Output"): the styled     *)
(* Line, the terminal driver, the differential renderer, the line editor   *)
(* and the worker threads with their channels.                             *)
(*                                                                         *)
(* Text is a sequence of Unicode code points (integers); byte offsets are  *)
(* computed from the UTF-8 length of each code point.  An Option<T> is a   *)
(* sequence of length 0 (None) or 1 (Some).                                *)
(***************************************************************************)
EXTENDS Integers, Sequences, FiniteSets, TLC

VARIABLES
    term,               \* the terminal: driver fields and what the screen shows
    remembered_output,  \* TtyState::remembered_output : Option<RememberedOutput>
    status,             \* TtyState::status : Option<Line>
    prompt,             \* TtyState::prompt : Option<Line>
    notice,             \* TtyState::notice : Option<(Line, Instant)>
    input,              \* TtyState::input : String
    clipboard,          \* TtyState::clipboard : String
    input_cursor,       \* TtyState::input_cursor : usize (byte offset)
    input_allowed,      \* TtyState::input_allowed
    rollout_needed,     \* TtyState::rollout_needed
    history,            \* the shared History (Arc<RwLock<History>>)
    cur_history_index,  \* TtyState::cur_history_index : Option<usize>
    orphaned_new_input, \* TtyState::orphaned_new_input : Option<String>
    history_original_line, \* TtyState::history_original_line : Option<String>
    completor,          \* TtyState::completor: the installed Completor, if any
    consecutive_completion_presses, \* TtyState::consecutive_completion_presses
    worker,             \* where the worker thread is: its position and outcome
    dying,              \* tty_worker's local dying
    req_queue,          \* the request channel (std mpsc, unbounded)
    resp_queue,         \* the response channel (tokio mpsc, unbounded)
    resp_open,          \* the response sender has not been dropped
    ded_queue,          \* the notice-deadline channel (sync_channel(5))
    heartbeat,          \* the heartbeat thread: its position and deadlines
    now,                \* the monotonic clock (Instant::now)
    term_ok,            \* writes to the terminal succeed
    raw_mode,           \* the terminal is in raw mode
    client,             \* the thread that owns the InputOutput
    last_handled,       \* the request the worker handled last in this batch
    input_thread,       \* the input thread: how many requests it has sent, and
                        \* in pipe mode what it has still to read from stdin
    history_call,       \* the last call the application made on its History
    nav,                \* the user's walk through the history: the input it
                        \* started from and the Up and Down presses since
    built,              \* the Line the application is building, and the last
                        \* call it made on it
    drawn,              \* the last call of output_line_changes: what it started
                        \* from and what it sent to the terminal
    features,           \* the cargo features of the build
    LISO_OUTPUT_TX,     \* static LISO_OUTPUT_TX : Mutex<Option<Sender<Request>>>
    LISO_IS_ACTIVE,     \* static LISO_IS_ACTIVE : AtomicBool
    instances           \* every InputOutput constructed so far, with its worker

\* "let v = ...; body": v is computed once and body reads it
Bind(v, body(_)) == body(v)

Min(a, b) == IF a < b THEN a ELSE b
Max(a, b) == IF a > b THEN a ELSE b

None == <<>>
Some(x) == <<x>>
IsSome(o) == Len(o) = 1
Unwrap(o) == o[1]

-----------------------------------------------------------------------------
(* Code points and strings *)

NL == 10
CR == 13
BOM == 65279            \* U+FEFF
SPACE == 32
TAB == 9
COMBINING == 769        \* U+0301 COMBINING ACUTE ACCENT: two bytes, width 0
WIDE == 35486           \* U+8A9E: three bytes, width 2

\* char::len_utf8
Utf8Len(c) == IF c < 128 THEN 1 ELSE IF c < 2048 THEN 2 ELSE IF c < 65536 THEN 3 ELSE 4

\* char::is_control: the C0 block, DEL and the C1 block
IsControl(c) == c < 32 \/ (c >= 127 /\ c < 160)

\* char::is_whitespace, on the code points the model uses
IsWhitespace(c) == c \in {9, 10, 11, 12, 13, 32, 133, 160, 8232, 8233}

\* UnicodeWidthChar::width(ch).unwrap_or(0)
CharWidth(c) ==
    IF IsControl(c) THEN 0
    ELSE IF c = COMBINING \/ c = 8203 THEN 0
    ELSE IF c = WIDE THEN 2
    ELSE 1

RECURSIVE ByteLen(_)
\* str::len
ByteLen(s) == IF s = <<>> THEN 0 ELSE Utf8Len(Head(s)) + ByteLen(Tail(s))

\* byte offset of the k-th code point (1-based); ByteLen(s) for k = Len(s)+1
ByteIndex(s, k) == ByteLen(SubSeq(s, 1, k - 1))

\* str::is_char_boundary
IsCharBoundary(s, i) == \E k \in 1..(Len(s) + 1) : ByteIndex(s, k) = i

\* number of code points that start before byte offset i
CharsBefore(s, i) == Cardinality({k \in 1..Len(s) : ByteIndex(s, k) < i})

\* &s[from..to] for offsets on code-point boundaries
ByteSlice(s, from, to) == SubSeq(s, CharsBefore(s, from) + 1, CharsBefore(s, to))

-----------------------------------------------------------------------------
(* Style, Color, Line *)

PLAIN == {}
NoColor == "none"

Attr(style, fg, bg) == [style |-> style, fg |-> fg, bg |-> bg]
PlainAttr == Attr(PLAIN, NoColor, NoColor)

LineNew == [text |-> <<>>, elements |-> <<>>]

LastIdx(line) == Len(line.elements)

\* Line::append_text
append_text(line, i) ==
    IF ByteLen(i) = 0 THEN line
    ELSE IF line.text = <<>> THEN
        IF line.elements = <<>>
        THEN [text |-> i,
              elements |-> <<[style |-> PLAIN, fg |-> NoColor, bg |-> NoColor,
                              start |-> 0, end |-> ByteLen(i)]>>]
        ELSE [text |-> i,
              elements |-> [line.elements EXCEPT ![LastIdx(line)].end = ByteLen(i)]]
    ELSE [text |-> line.text \o i,
          elements |-> [line.elements EXCEPT
                           ![LastIdx(line)].end = ByteLen(line.text) + ByteLen(i)]]

\* Line::get_style
get_style(line) ==
    IF line.elements = <<>> THEN PLAIN ELSE line.elements[LastIdx(line)].style

\* set_style that pushes an element also when the last one has no text yet
set_style_AlwaysPush(line, nu) ==
    IF line.elements # <<>> /\ line.elements[LastIdx(line)].style = nu THEN line
    ELSE [line EXCEPT !.elements = Append(line.elements,
            [style |-> nu,
             fg |-> IF line.elements = <<>> THEN NoColor
                    ELSE line.elements[LastIdx(line)].fg,
             bg |-> IF line.elements = <<>> THEN NoColor
                    ELSE line.elements[LastIdx(line)].bg,
             start |-> ByteLen(line.text), end |-> ByteLen(line.text)])]

\* Line::set_style
set_style(line, nu) ==
    IF line.elements # <<>> /\ line.elements[LastIdx(line)].style = nu THEN line
    ELSE IF line.elements # <<>>
            /\ line.elements[LastIdx(line)].start = line.elements[LastIdx(line)].end
    THEN [line EXCEPT !.elements[LastIdx(line)].style = nu]
    ELSE [line EXCEPT !.elements = Append(line.elements,
            [style |-> nu,
             fg |-> IF line.elements = <<>> THEN NoColor
                    ELSE line.elements[LastIdx(line)].fg,
             bg |-> IF line.elements = <<>> THEN NoColor
                    ELSE line.elements[LastIdx(line)].bg,
             start |-> ByteLen(line.text), end |-> ByteLen(line.text)])]

\* Line::toggle_style
toggle_style(line, nu) ==
    set_style(line, (get_style(line) \ nu) \cup (nu \ get_style(line)))

\* Line::set_colors
set_colors(line, fg, bg) ==
    IF line.elements # <<>> /\ line.elements[LastIdx(line)].fg = fg
                            /\ line.elements[LastIdx(line)].bg = bg THEN line
    ELSE IF line.elements # <<>>
            /\ line.elements[LastIdx(line)].start = line.elements[LastIdx(line)].end
    THEN [line EXCEPT !.elements[LastIdx(line)].fg = fg,
                      !.elements[LastIdx(line)].bg = bg]
    ELSE [line EXCEPT !.elements = Append(line.elements,
            [style |-> IF line.elements = <<>> THEN PLAIN
                       ELSE line.elements[LastIdx(line)].style,
             fg |-> fg, bg |-> bg,
             start |-> ByteLen(line.text), end |-> ByteLen(line.text)])]

\* Line::activate_style
activate_style(line, nu) == set_style(line, get_style(line) \cup nu)

\* Line::deactivate_style
deactivate_style(line, nu) == set_style(line, get_style(line) \ nu)

\* Line::get_colors
get_colors(line) ==
    IF line.elements = <<>> THEN [fg |-> NoColor, bg |-> NoColor]
    ELSE [fg |-> line.elements[LastIdx(line)].fg, bg |-> line.elements[LastIdx(line)].bg]

\* Line::set_fg_color
set_fg_color(line, nu) ==
    IF nu # get_colors(line).fg THEN set_colors(line, nu, get_colors(line).bg) ELSE line

\* Line::set_bg_color
set_bg_color(line, nu) ==
    IF nu # get_colors(line).bg THEN set_colors(line, get_colors(line).fg, nu) ELSE line

\* Line::reset_all
reset_all(line) == set_colors(set_style(line, PLAIN), NoColor, NoColor)

\* the assertions of Line::append_text hold for line and text i (and the
\* unwrap of elements.last_mut() finds an element)
append_text_asserts(line, i) ==
    \/ ByteLen(i) = 0
    \/ /\ line.text = <<>>
       /\ line.elements # <<>> => /\ line.elements[LastIdx(line)].start = 0
                                  /\ line.elements[LastIdx(line)].end = 0
    \/ /\ line.text # <<>>
       /\ line.elements # <<>>
       /\ line.elements[LastIdx(line)].end = ByteLen(line.text)

HexDigit(n) == IF n < 10 THEN 48 + n ELSE 55 + n

\* the replacement text add_text writes for a control character
ControlAddendum(c) ==
    IF c < 32 THEN <<94, 64 + c>>
    ELSE <<85, 43, HexDigit((c \div 4096) % 16), HexDigit((c \div 256) % 16),
           HexDigit((c \div 16) % 16), HexDigit(c % 16)>>

\* a rewriting of the C0 block alone
IsSubstituted_C0Only(c) == c < 32 /\ c # NL

\* the characters add_text rewrites
IsSubstituted(c) == (IsControl(c) /\ c # NL) \/ c = 8232 \/ c = 8233

RECURSIVE add_text_from(_, _, _)
\* the loop of Line::add_text: plain holds the pending run of ordinary text
add_text_from(line, rest, plain) ==
    IF rest = <<>> THEN append_text(line, plain)
    ELSE IF IsSubstituted(Head(rest))
    THEN add_text_from(
            toggle_style(
                append_text(toggle_style(append_text(line, plain), {"INVERSE"}),
                            ControlAddendum(Head(rest))),
                {"INVERSE"}),
            Tail(rest), <<>>)
    ELSE add_text_from(line, Tail(rest), Append(plain, Head(rest)))

\* Line::add_text
add_text(line, i) == IF ByteLen(i) = 0 THEN line ELSE add_text_from(line, i, <<>>)

RECURSIVE add_text_asserts_from(_, _, _)
\* the assertions of every append_text the loop of Line::add_text calls hold
add_text_asserts_from(line, rest, plain) ==
    IF rest = <<>> THEN append_text_asserts(line, plain)
    ELSE IF IsSubstituted(Head(rest))
    THEN /\ append_text_asserts(line, plain)
         /\ append_text_asserts(toggle_style(append_text(line, plain), {"INVERSE"}),
                                ControlAddendum(Head(rest)))
         /\ add_text_asserts_from(
                toggle_style(
                    append_text(toggle_style(append_text(line, plain), {"INVERSE"}),
                                ControlAddendum(Head(rest))),
                    {"INVERSE"}),
                Tail(rest), <<>>)
    ELSE add_text_asserts_from(line, Tail(rest), Append(plain, Head(rest)))

\* Line::add_text returns without a failed assertion
add_text_asserts(line, i) == ByteLen(i) = 0 \/ add_text_asserts_from(line, i, <<>>)

\* Line::reset_and_break
reset_and_break(line) ==
    set_colors(set_style(add_text(line, <<NL>>), PLAIN), NoColor, NoColor)

RECURSIVE append_elements(_, _, _)
append_elements(line, other, k) ==
    IF k > Len(other.elements) THEN line
    ELSE append_elements(
            add_text(set_colors(set_style(line, other.elements[k].style),
                                other.elements[k].fg, other.elements[k].bg),
                     ByteSlice(other.text, other.elements[k].start,
                               other.elements[k].end)),
            other, k + 1)

\* Line::append_line
append_line(line, other) == append_elements(line, other, 1)

RECURSIVE append_elements_asserts(_, _, _)
append_elements_asserts(line, other, k) ==
    IF k > Len(other.elements) THEN TRUE
    ELSE LET l1 == set_colors(set_style(line, other.elements[k].style),
                              other.elements[k].fg, other.elements[k].bg)
             t == ByteSlice(other.text, other.elements[k].start, other.elements[k].end)
         IN /\ add_text_asserts(l1, t)
            /\ append_elements_asserts(add_text(l1, t), other, k + 1)

\* Line::append_line returns without a failed assertion
append_line_asserts(line, other) == append_elements_asserts(line, other, 1)

\* Line::len
LineLen(line) == ByteLen(line.text)

\* the element LineCharIterator::next stops at for byte offset index
ElementAt(line, index) ==
    IF \E e \in 1..Len(line.elements) : line.elements[e].end > index
    THEN line.elements[CHOOSE e \in 1..Len(line.elements) :
            /\ line.elements[e].end > index
            /\ \A f \in 1..(e - 1) : line.elements[f].end <= index]
    ELSE [style |-> PLAIN, fg |-> NoColor, bg |-> NoColor, start |-> 0, end |-> 0]

\* Line::chars, collected: the LineChar of every code point
LineChars(line) ==
    [k \in 1..Len(line.text) |->
        [index |-> ByteIndex(line.text, k),
         ch |-> line.text[k],
         style |-> ElementAt(line, ByteIndex(line.text, k)).style,
         fg |-> ElementAt(line, ByteIndex(line.text, k)).fg,
         bg |-> ElementAt(line, ByteIndex(line.text, k)).bg]]

\* a comparison under which no two characters are equal
LineCharEq_Never(a, b) == FALSE

\* impl PartialEq for LineChar
LineCharEq(a, b) == a.ch = b.ch /\ a.style = b.style /\ a.fg = b.fg /\ a.bg = b.bg

\* LineChar::endfills_same_as
endfills_same_as(a, b) ==
    IF ("UNDERLINE" \in a.style) # ("UNDERLINE" \in b.style) THEN FALSE
    ELSE IF ("INVERSE" \in a.style) # ("INVERSE" \in b.style) THEN FALSE
    ELSE IF "INVERSE" \in a.style
    THEN IF "UNDERLINE" \in a.style /\ a.bg # b.bg THEN FALSE ELSE a.fg = b.fg
    ELSE IF "UNDERLINE" \in a.style /\ a.fg # b.fg THEN FALSE ELSE a.bg = b.bg

-----------------------------------------------------------------------------
(* The terminal: the Crossterminal driver and the screen it writes to.     *)
(* The driver disables line wrap (unsuspend), so a character printed in    *)
(* the last column leaves the cursor there.  Rows are counted from the     *)
(* first row of the composite.                                             *)

TermWidth == 2          \* Term::get_width
MaxSegs == 2            \* styled runs per line drawn by the renderer
TermRows == MaxSegs + 1

BlankCell(bg) == [ch |-> SPACE, style |-> PLAIN, fg |-> NoColor, bg |-> bg]
BlankScreen == [r \in 0..(TermRows - 1) |-> [c \in 0..(TermWidth - 1) |-> BlankCell(NoColor)]]

TermNew ==
    [cells |-> BlankScreen, row |-> 0, col |-> 0, sgr |-> PlainAttr,
     cur_style |-> PLAIN, cur_fg |-> NoColor, cur_bg |-> NoColor,
     cursor_shown |-> FALSE, suspended |-> FALSE, log |-> FALSE, ops |-> <<>>,
     origin |-> None]

\* origin, where it is kept, is the row of the screen that holds the first row
\* of the composite, and -1 once that row has scrolled off the screen.
\* The operations sent to the terminal by the current handler are recorded
\* while t.log is set
Emit(t, op, n) == IF t.log THEN [t EXCEPT !.ops = Append(t.ops, [op |-> op, n |-> n])] ELSE t

\* Crossterminal::set_attrs.  SetAttribute(Reset) clears every attribute;
\* SetAttributes only switches attributes on; SetColors changes only the
\* colours that are Some.
set_attrs(t, style, fg, bg) ==
    LET reset == t.cur_style # style
                 \/ (t.cur_fg # fg /\ fg = NoColor)
                 \/ (t.cur_bg # bg /\ fg = NoColor)
        t1 == IF reset
              THEN [t EXCEPT !.sgr = PlainAttr, !.cur_style = PLAIN,
                             !.cur_fg = NoColor, !.cur_bg = NoColor]
              ELSE t
        t2 == IF style # PLAIN
              THEN [t1 EXCEPT !.sgr.style = t1.sgr.style \cup style,
                              !.cur_style = style]
              ELSE t1
        t3 == IF fg # t2.cur_fg \/ bg # t2.cur_bg
              THEN [t2 EXCEPT !.sgr.fg = IF fg # NoColor THEN fg ELSE t2.sgr.fg,
                              !.sgr.bg = IF bg # NoColor THEN bg ELSE t2.sgr.bg,
                              !.cur_fg = fg, !.cur_bg = bg]
              ELSE t2
    IN Emit(t3, "set_attrs", 0)

\* Crossterminal::reset_attrs
reset_attrs(t) ==
    Emit([t EXCEPT !.sgr = PlainAttr, !.cur_style = PLAIN,
                   !.cur_fg = NoColor, !.cur_bg = NoColor], "reset_attrs", 0)

\* what Print(ch) does to the screen
PutChar(t, ch) ==
    IF CharWidth(ch) = 0 THEN t
    ELSE [t EXCEPT !.cells[t.row][t.col] =
                        [ch |-> ch, style |-> t.sgr.style, fg |-> t.sgr.fg,
                         bg |-> t.sgr.bg],
                   !.col = Min(t.col + CharWidth(ch), TermWidth - 1)]

\* Crossterminal::print_char
print_char(t, ch) == Emit(PutChar(t, ch), "print_char", ch)

RECURSIVE PutSpaces(_, _)
PutSpaces(t, n) == IF n = 0 THEN t ELSE PutSpaces(PutChar(t, SPACE), n - 1)

\* Crossterminal::print_spaces
print_spaces(t, n) == Emit(PutSpaces(t, n), "print_spaces", n)

\* Crossterminal::move_cursor_up
move_cursor_up(t, amt) == Emit([t EXCEPT !.row = Max(t.row - amt, 0)], "move_cursor_up", amt)

\* Crossterminal::move_cursor_down
move_cursor_down(t, amt) ==
    Emit([t EXCEPT !.row = Min(t.row + amt, TermRows - 1)], "move_cursor_down", amt)

\* Crossterminal::move_cursor_left
move_cursor_left(t, amt) ==
    Emit([t EXCEPT !.col = Max(t.col - amt, 0)], "move_cursor_left", amt)

\* Crossterminal::move_cursor_right
move_cursor_right(t, amt) ==
    Emit([t EXCEPT !.col = Min(t.col + amt, TermWidth - 1)], "move_cursor_right", amt)

\* a line feed on the last row scrolls the screen up by one row
LineFeed(t) ==
    IF t.row < TermRows - 1 THEN [t EXCEPT !.row = t.row + 1]
    ELSE [t EXCEPT !.cells = [r \in 0..(TermRows - 1) |->
                        IF r < TermRows - 1 THEN t.cells[r + 1]
                        ELSE [c \in 0..(TermWidth - 1) |-> BlankCell(NoColor)]],
                   !.origin = IF IsSome(@) /\ Unwrap(@) >= 0
                              THEN Some(Unwrap(@) - 1) ELSE @]

\* Crossterminal::newline prints "\r\n"
newline(t) == Emit([LineFeed(t) EXCEPT !.col = 0], "newline", 0)

\* Crossterminal::carriage_return
carriage_return(t) == Emit([t EXCEPT !.col = 0], "carriage_return", 0)

\* Crossterminal::bell
bell(t) == Emit(t, "bell", 0)

\* Crossterminal::clear_forward_and_reset: attribute reset, then erase from
\* the cursor to the end of the screen
clear_forward_and_reset(t) ==
    Emit([t EXCEPT !.sgr = PlainAttr, !.cur_style = PLAIN,
                   !.cur_fg = NoColor, !.cur_bg = NoColor,
                   !.cells = [r \in 0..(TermRows - 1) |-> [c \in 0..(TermWidth - 1) |->
                        IF r > t.row \/ (r = t.row /\ c >= t.col)
                        THEN BlankCell(NoColor) ELSE t.cells[r][c]]]],
         "clear_forward_and_reset", 0)

\* Crossterminal::clear_all_and_reset: reset, erase everything, cursor home
clear_all_and_reset(t) ==
    Emit([t EXCEPT !.sgr = PlainAttr, !.cur_style = PLAIN,
                   !.cur_fg = NoColor, !.cur_bg = NoColor,
                   !.cells = BlankScreen, !.row = 0, !.col = 0],
         "clear_all_and_reset", 0)

\* Crossterminal::clear_to_end_of_line: erased cells take the background
\* colour in effect
clear_to_end_of_line(t) ==
    Emit([t EXCEPT !.cells[t.row] = [c \in 0..(TermWidth - 1) |->
                        IF c >= t.col THEN BlankCell(t.sgr.bg) ELSE t.cells[t.row][c]]],
         "clear_to_end_of_line", 0)

\* Crossterminal::hide_cursor
hide_cursor(t) == Emit([t EXCEPT !.cursor_shown = FALSE], "hide_cursor", 0)

\* Crossterminal::show_cursor
show_cursor(t) == Emit([t EXCEPT !.cursor_shown = TRUE], "show_cursor", 0)

\* Crossterminal::suspend, the part that is written to the terminal: cursor
\* shown, attributes reset, erase from the cursor down
suspend(t) ==
    Emit([t EXCEPT !.cursor_shown = TRUE, !.sgr = PlainAttr, !.cur_style = PLAIN,
                   !.cur_fg = NoColor, !.cur_bg = NoColor, !.suspended = TRUE,
                   !.cells = [r \in 0..(TermRows - 1) |-> [c \in 0..(TermWidth - 1) |->
                        IF r > t.row \/ (r = t.row /\ c >= t.col)
                        THEN BlankCell(NoColor) ELSE t.cells[r][c]]]],
         "suspend", 0)

\* Crossterminal::unsuspend, the part that is written to the terminal
unsuspend(t) ==
    Emit([t EXCEPT !.cursor_shown = FALSE, !.sgr = PlainAttr, !.suspended = FALSE],
         "unsuspend", 0)

\* what a cell looks like: the foreground of a blank that is neither
\* inverse nor underlined cannot be seen, nor can its bold/dim/italic
Shown(cell) ==
    IF cell.ch = SPACE /\ "INVERSE" \notin cell.style /\ "UNDERLINE" \notin cell.style
    THEN BlankCell(cell.bg)
    ELSE cell

ShownScreen(t) == [r \in 0..(TermRows - 1) |-> [c \in 0..(TermWidth - 1) |-> Shown(t.cells[r][c])]]

-----------------------------------------------------------------------------
(* The differential renderer *)

\* inverse, underline or a background colour: trailing blanks would be seen
FillsVisibly(a) == "INVERSE" \in a.style \/ "UNDERLINE" \in a.style \/ a.bg # NoColor

\* the locals of output_line_changes
RenderLocals(t, real_column, real_breaks) ==
    [term |-> t, real_column |-> real_column, real_breaks |-> real_breaks,
     cur_attr |-> PlainAttr, cur_column |-> 0, cur_breaks |-> 0,
     endfill_redundant |-> FALSE, out_left |-> None, out_top |-> None,
     implied_newline |-> FALSE, old_active |-> TRUE, printed |-> {}]

\* TtyState::maybe_report
maybe_report(s, index, cursor_pos) ==
    IF IsSome(cursor_pos) /\ index = Unwrap(cursor_pos)
    THEN [s EXCEPT !.out_left = Some(IF s.cur_column >= TermWidth THEN TermWidth
                                     ELSE s.cur_column),
                   !.out_top = Some(s.cur_breaks)]
    ELSE s

\* TtyState::reconcile_cursors
reconcile_cursors(s, column, breaks) ==
    LET cur_column == Min(column, TermWidth)
        real_column == Min(s.real_column, TermWidth)
        cur_shown_column == Min(cur_column, TermWidth - 1)
        real_shown_column == Min(real_column, TermWidth - 1)
        t1 == IF s.real_breaks < breaks
              THEN move_cursor_down(s.term, breaks - s.real_breaks)
              ELSE IF s.real_breaks > breaks
              THEN move_cursor_up(s.term, s.real_breaks - breaks)
              ELSE s.term
        t2 == IF real_shown_column < cur_shown_column
              THEN move_cursor_right(t1, cur_shown_column - real_shown_column)
              ELSE IF real_shown_column > cur_shown_column
              THEN move_cursor_left(t1, real_shown_column - cur_shown_column)
              ELSE t1
    IN [s EXCEPT !.term = t2, !.real_breaks = breaks,
                 !.real_column = IF real_shown_column # cur_shown_column
                                 THEN cur_column ELSE real_column]

\* the line break output_char emits after a character reached the last column
\* or for a newline
BreakLine(s, ch) ==
    LET t1 == IF s.cur_column < TermWidth
              THEN IF FillsVisibly(s.cur_attr)
                   THEN print_spaces(s.term, TermWidth - s.cur_column)
                   ELSE clear_to_end_of_line(s.term)
              ELSE s.term
    IN [s EXCEPT !.term = newline(t1), !.implied_newline = (ch # NL),
                 !.cur_breaks = @ + 1, !.cur_column = 0]

\* TtyState::output_char; printed collects the byte offsets of the characters
\* it was called for
output_char(s, lc) ==
    Bind(IF Attr(lc.style, lc.fg, lc.bg) # s.cur_attr
         THEN [s EXCEPT !.term = set_attrs(s.term, lc.style, lc.fg, lc.bg),
                        !.cur_attr = Attr(lc.style, lc.fg, lc.bg),
                        !.printed = @ \cup {lc.index}]
         ELSE [s EXCEPT !.printed = @ \cup {lc.index}], LAMBDA s1 :
    Bind(IF lc.ch # NL
         THEN [s1 EXCEPT !.term = print_char(s1.term, lc.ch),
                         !.cur_column = @ + CharWidth(lc.ch),
                         !.implied_newline = FALSE]
         ELSE s1, LAMBDA s2 :
    IF lc.ch = NL /\ s1.implied_newline
    THEN [s1 EXCEPT !.implied_newline = FALSE]
    ELSE IF (CharWidth(lc.ch) > 0 /\ s2.cur_column >= TermWidth) \/ lc.ch = NL
    THEN BreakLine(s2, lc.ch)
    ELSE s2))

\* TtyState::sim_output_char
sim_output_char(s, lc) ==
    LET s2 == IF lc.ch # NL
              THEN [s EXCEPT !.cur_column = @ + CharWidth(lc.ch),
                             !.implied_newline = FALSE]
              ELSE s
    IN IF lc.ch = NL /\ s.implied_newline
       THEN [s EXCEPT !.implied_newline = FALSE]
       ELSE IF (CharWidth(lc.ch) > 0 /\ s2.cur_column >= TermWidth) \/ lc.ch = NL
       THEN [s2 EXCEPT !.cur_breaks = @ + 1, !.cur_column = 0,
                       !.implied_newline = (lc.ch # NL)]
       ELSE s2

\* report, reconcile and print one character of new that has no counterpart
EmitNewChar(s, b, cursor_pos) ==
    Bind(maybe_report(s, b.index, cursor_pos), LAMBDA s1 :
    Bind(output_char(reconcile_cursors(s1, s1.cur_column, s1.cur_breaks), b),
         LAMBDA s3 :
    [s3 EXCEPT !.real_column = s3.cur_column, !.real_breaks = s3.cur_breaks]))

\* the (Some(a), Some(b)) arm with a /= b
EmitChangedChar(s, a, b) ==
    Bind(reconcile_cursors(s, s.cur_column, s.cur_breaks), LAMBDA s2 :
    Bind(output_char(IF (a.ch = NL) # (b.ch = NL)
                     THEN [s2 EXCEPT !.term = clear_forward_and_reset(s2.term),
                                     !.cur_attr = PlainAttr, !.old_active = FALSE]
                     ELSE s2, b), LAMBDA s4 :
    [s4 EXCEPT !.real_column = s4.cur_column, !.real_breaks = s4.cur_breaks,
               !.endfill_redundant = endfills_same_as(a, b)]))

\* the (Some(a), None) arm: new ended first
EraseOldTail(s) ==
    Bind(reconcile_cursors(s, s.cur_column, s.cur_breaks), LAMBDA s1 :
    [(IF s1.real_column = TermWidth /\ s1.cur_column + 1 = TermWidth
      THEN [s1 EXCEPT !.term = print_spaces(s1.term, 1)]
      ELSE IF s1.cur_column = TermWidth
      THEN reconcile_cursors(
               [s1 EXCEPT !.term = clear_forward_and_reset(newline(s1.term)),
                          !.real_column = 0, !.real_breaks = @ + 1],
               s1.cur_column, s1.cur_breaks)
      ELSE [s1 EXCEPT !.term = clear_forward_and_reset(s1.term)])
     EXCEPT !.endfill_redundant = FALSE])

RECURSIVE DiffLoop(_, _, _, _, _)
\* the lockstep loop of output_line_changes; yields the locals, the index of
\* the next character of new and ended_simultaneously
DiffLoop(s, old, new, i, cursor_pos) ==
    IF s.old_active /\ i <= Len(old) /\ i <= Len(new)
    THEN DiffLoop(IF LineCharEq(old[i], new[i])
                  THEN sim_output_char(maybe_report(s, new[i].index, cursor_pos),
                                       new[i])
                  ELSE EmitChangedChar(maybe_report(s, new[i].index, cursor_pos),
                                       old[i], new[i]),
                  old, new, i + 1, cursor_pos)
    ELSE IF i <= Len(new)
    THEN [st |-> [EmitNewChar(s, new[i], cursor_pos) EXCEPT !.endfill_redundant = FALSE],
          next |-> i + 1, ended_simultaneously |-> FALSE]
    ELSE IF s.old_active /\ i <= Len(old)
    THEN [st |-> EraseOldTail(s), next |-> i, ended_simultaneously |-> FALSE]
    ELSE [st |-> s, next |-> i, ended_simultaneously |-> TRUE]

RECURSIVE RestLoop(_, _, _, _)
\* "for b in new_chars": the characters of new after the lockstep loop
RestLoop(s, new, i, cursor_pos) ==
    IF i > Len(new) THEN s
    ELSE RestLoop(EmitNewChar(s, new[i], cursor_pos), new, i + 1, cursor_pos)

\* the endfill step of output_line_changes
EndFill(s, new_line, ended_simultaneously, endfill) ==
    IF (~ended_simultaneously \/ ~s.endfill_redundant)
       /\ endfill /\ new_line.elements # <<>>
       /\ FillsVisibly(new_line.elements[LastIdx(new_line)])
       /\ s.cur_column < TermWidth
    THEN LET last == new_line.elements[LastIdx(new_line)]
         IN Bind(reconcile_cursors(s, s.cur_column, s.cur_breaks), LAMBDA s1 :
            [s1 EXCEPT !.term = print_spaces(
                                    set_attrs(s1.term, last.style, last.fg, last.bg),
                                    TermWidth - s1.cur_column),
                       !.cur_column = TermWidth, !.real_column = TermWidth])
    ELSE s

\* the tail of output_line_changes: attribute reset, break_after, final cursor
FinishLine(s, new_line, cursor_pos, break_after, endfill) ==
    Bind([s EXCEPT !.term = set_attrs(s.term, PLAIN, NoColor, NoColor)], LAMBDA s1 :
    Bind(IF break_after /\ ~s1.implied_newline
         THEN [s1 EXCEPT !.term = newline(IF ~endfill /\ s1.cur_column # TermWidth
                                          THEN clear_to_end_of_line(s1.term)
                                          ELSE s1.term),
                         !.cur_column = 0, !.cur_breaks = @ + 1]
         ELSE s1, LAMBDA s2 :
    LET cursor_left == IF IsSome(s2.out_left) THEN Unwrap(s2.out_left) ELSE s2.cur_column
        cursor_top == IF IsSome(s2.out_top) THEN Unwrap(s2.out_top) ELSE s2.cur_breaks
    IN Bind(reconcile_cursors(s2, cursor_left, cursor_top), LAMBDA s3 :
       [term |-> IF cursor_top > s2.cur_breaks
                 THEN IF endfill
                      THEN carriage_return(print_spaces(newline(s3.term), TermWidth))
                      ELSE newline(s3.term)
                 ELSE s3.term,
        panicked |-> (cursor_top > s2.cur_breaks /\ s2.cur_breaks + 1 # cursor_top),
        printed |-> s2.printed,
        remembered |-> Some([output_line |-> new_line, cursor_pos |-> cursor_pos,
                             cursor_left |-> cursor_left, cursor_top |-> cursor_top])])))

\* TtyState::output_line_changes: the terminal and remembered_output it leaves
output_line_changes(t, rem, new_line, cursor_pos, break_after, endfill) ==
    IF IsSome(rem) /\ new_line = Unwrap(rem).output_line
                   /\ cursor_pos = Unwrap(rem).cursor_pos
    THEN [term |-> t, panicked |-> FALSE, printed |-> {}, remembered |-> rem]
    ELSE Bind(LineChars(new_line), LAMBDA new :
         Bind(DiffLoop(RenderLocals(t,
                           IF IsSome(rem) THEN Unwrap(rem).cursor_left ELSE 0,
                           IF IsSome(rem) THEN Unwrap(rem).cursor_top ELSE 0),
                       IF IsSome(rem) THEN LineChars(Unwrap(rem).output_line)
                       ELSE <<>>,
                       new, 1, cursor_pos), LAMBDA d :
         FinishLine(EndFill(maybe_report(RestLoop(d.st, new, d.next, cursor_pos),
                                         LineLen(new_line), cursor_pos),
                            new_line, d.ended_simultaneously, endfill),
                    new_line, cursor_pos, break_after, endfill)))

\* rollin that erases from the row the cursor is in
rollin_term_StaysInRow(t, rem, allowed) ==
    IF IsSome(rem)
    THEN LET t1 == IF allowed THEN hide_cursor(t) ELSE t
             t2 == IF Unwrap(rem).cursor_left # 0 THEN carriage_return(t1) ELSE t1
         IN clear_forward_and_reset(t2)
    ELSE t

\* TtyState::rollin: the terminal it leaves; remembered_output becomes None
rollin_term(t, rem, allowed) ==
    IF IsSome(rem)
    THEN LET t1 == IF allowed THEN hide_cursor(t) ELSE t
             t2 == IF Unwrap(rem).cursor_left # 0 THEN carriage_return(t1) ELSE t1
             t3 == IF Unwrap(rem).cursor_top # 0
                   THEN move_cursor_up(t2, Unwrap(rem).cursor_top) ELSE t2
         IN clear_forward_and_reset(t3)
    ELSE t

-----------------------------------------------------------------------------
(* TtyState.  The handlers are operators on a record st that holds the     *)
(* fields of TtyState together with what a handler reaches through its     *)
(* arguments: the responses it sent (tx), the deadlines it sent (ded) and  *)
(* whether the deadline receiver still exists (ded_open), the clock (now), *)
(* whether writes to the terminal succeed (term_ok), the raw mode of the   *)
(* terminal, and how the handler ended (result: "ok", "err" for an Err     *)
(* propagated by ?, "panic").                                              *)

Fail(st) == [st EXCEPT !.result = "err"]
Panic(st) == [st EXCEPT !.result = "panic"]

\* one or more queue!/flush calls on the terminal followed by ?
TermWrite(st, t) == IF st.term_ok THEN [st EXCEPT !.term = t] ELSE Fail(st)

\* tx.send(response)?  The receiver is owned by the InputOutput, whose drop
\* waits for the worker to close the channel first, so the send succeeds.
SendResponse(st, kind, text) == [st EXCEPT !.tx = Append(@, [kind |-> kind, text |-> text])]

\* the code point that starts at byte offset i
CharAt(s, i) == s[CharsBefore(s, i) + 1]

\* String::insert_str / String::insert at a code-point boundary
StrInsert(s, at, t) ==
    SubSeq(s, 1, CharsBefore(s, at)) \o t \o SubSeq(s, CharsBefore(s, at) + 1, Len(s))

\* String::replace_range(from..to, "") on code-point boundaries
StrRemove(s, from, to) ==
    SubSeq(s, 1, CharsBefore(s, from)) \o SubSeq(s, CharsBefore(s, to) + 1, Len(s))

RECURSIVE WordsOf(_, _, _)
\* the words of the paragraph p from 0-based offset pos on, as [start, end):
\* maximal runs of characters other than the space, each cut into pieces of
\* at most width characters (textwrap's break_words)
WordsOf(p, width, pos) ==
    IF pos >= Len(p) THEN <<>>
    ELSE IF p[pos + 1] = SPACE THEN WordsOf(p, width, pos + 1)
    ELSE LET stop == IF \E k \in (pos + 1)..Len(p) : p[k] = SPACE
                     THEN (CHOOSE k \in (pos + 1)..Len(p) :
                              p[k] = SPACE /\ \A j \in (pos + 1)..(k - 1) : p[j] # SPACE) - 1
                     ELSE Len(p)
             end == Min(stop, pos + width)
         IN <<[start |-> pos, end |-> end]>> \o WordsOf(p, width, end)

RECURSIVE FirstFit(_, _, _)
\* the lines textwrap builds from words: a word joins the line while the line
\* stays within width, the blanks between its words included
FirstFit(words, width, lines) ==
    IF words = <<>> THEN lines
    ELSE IF lines # <<>> /\ Head(words).end - lines[Len(lines)].start <= width
    THEN FirstFit(Tail(words), width,
                  [lines EXCEPT ![Len(lines)].end = Head(words).end])
    ELSE FirstFit(Tail(words), width, Append(lines, Head(words)))

\* textwrap::wrap(p, width) for a paragraph of ASCII text that does not begin
\* with a blank: the slices of p it returns, as [start, end) within p
textwrap_wrap(p, width) == FirstFit(WordsOf(p, width, 0), width, <<>>)

RECURSIVE erase_elements(_, _, _, _, _)
\* the loop of Line::erase_and_insert_newline: i elements are still to be
\* visited, from the last one down
erase_elements(els, i, elements_len, from, to) ==
    IF i = 0 THEN els
    ELSE LET delta_bytes == 1 - (to - from)
             end1 == IF els[i].end >= to THEN els[i].end + delta_bytes
                     ELSE IF els[i].end > from THEN from ELSE els[i].end
             start1 == IF els[i].start >= to THEN els[i].start + delta_bytes
                       ELSE IF els[i].start > from THEN from ELSE els[i].start
             end2 == IF end1 <= start1 THEN start1 ELSE end1
             kept == [els EXCEPT ![i].start = start1, ![i].end = end2]
         IN IF end1 <= start1 /\ i # elements_len
            THEN erase_elements(SubSeq(els, 1, i - 1) \o SubSeq(els, i + 1, Len(els)),
                                i - 1, elements_len - 1, from, to)
            ELSE IF start1 >= from THEN kept
            ELSE erase_elements(kept, i - 1, elements_len, from, to)

\* Line::erase_and_insert_newline
erase_and_insert_newline(line, from, to) ==
    [text |-> StrInsert(StrRemove(line.text, from, to), from, <<NL>>),
     elements |-> erase_elements(line.elements, Len(line.elements),
                                 Len(line.elements), from, to)]

RECURSIVE wrap_edits(_, _, _, _)
\* the edit_vec wrap_to_width collects for a paragraph that starts at offset
\* start: the ranges between the pieces textwrap returned
wrap_edits(pieces, start, cur_end, k) ==
    IF k > Len(pieces) THEN <<>>
    ELSE IF pieces[k].start = pieces[k].end
    THEN wrap_edits(pieces, start, cur_end, k + 1)
    ELSE (IF start + pieces[k].start # 0
          THEN <<[start |-> cur_end, end |-> start + pieces[k].start]>> ELSE <<>>)
         \o wrap_edits(pieces, start, start + pieces[k].end, k + 1)

RECURSIVE apply_edits(_, _, _)
\* the edits of a paragraph, applied from the last one to the first
apply_edits(line, edits, k) ==
    IF k = 0 THEN line
    ELSE IF edits[k].start > 0 /\ CharAt(line.text, edits[k].start - 1) = NL
    THEN apply_edits(line, edits, k - 1)
    ELSE apply_edits(erase_and_insert_newline(line, edits[k].start, edits[k].end),
                     edits, k - 1)

RECURSIVE wrap_paragraphs(_, _, _, _)
\* the loop of wrap_to_width over the paragraphs, from the last one to the
\* first: ends are the positions of the newlines and the end of the text
wrap_paragraphs(line, width, ends, k) ==
    IF k = 0 THEN line
    ELSE LET start == IF k = 1 THEN 0 ELSE ends[k - 1] + 1
             end == ends[k]
         IN IF start >= end THEN wrap_paragraphs(line, width, ends, k - 1)
            ELSE wrap_paragraphs(
                    apply_edits(line,
                        wrap_edits(textwrap_wrap(ByteSlice(line.text, start, end), width),
                                   start, start, 1),
                        Len(wrap_edits(textwrap_wrap(ByteSlice(line.text, start, end),
                                                     width), start, start, 1))),
                    width, ends, k - 1)

\* the newline_positions of wrap_to_width: the index of every newline among
\* the characters of the text, then the length of the text
newline_positions(text) ==
    LET nl == {n \in 0..(Len(text) - 1) : text[n + 1] = NL}
        RECURSIVE Sorted(_, _)
        Sorted(S, from) ==
            IF S = {} THEN <<>>
            ELSE LET m == CHOOSE x \in S : \A y \in S : x <= y
                 IN <<m>> \o Sorted(S \ {m}, m + 1)
    IN Sorted(nl, 0) \o <<ByteLen(text)>>

\* Line::wrap_to_width
wrap_to_width(line, width) ==
    wrap_paragraphs(line, width, newline_positions(line.text),
                    Len(newline_positions(line.text)))

RECURSIVE StripCR(_)
\* while l.ends_with("\r") { l.pop(); }
StripCR(l) ==
    IF l # <<>> /\ l[Len(l)] = CR THEN StripCR(SubSeq(l, 1, Len(l) - 1)) ELSE l

\* History::new, with the limit the application has set
HistoryNew(limit) ==
    [lines |-> <<>>, limit |-> limit, strip_duplicates |-> TRUE,
     autosave |-> "none", autosave_interval |-> None,
     lines_since_last_autosave |-> 0]

\* History::set_autosave_handler: "none" for no handler, "ok" or "fail" for
\* what the handler returns when it is called
set_autosave_handler(h, autosave_handler) == [h EXCEPT !.autosave = autosave_handler]

\* History::set_autosave_interval
set_autosave_interval(h, autosave_interval) ==
    [h EXCEPT !.autosave_interval = autosave_interval,
              !.lines_since_last_autosave = IF ~IsSome(autosave_interval) THEN 0 ELSE @]

\* History::set_limit
set_limit(h, limit) == [h EXCEPT !.limit = limit]

\* History::set_strip_duplicates
set_strip_duplicates(h, strip) == [h EXCEPT !.strip_duplicates = strip]

\* the loop body of read_history_from: a byte order mark is taken off the
\* first line, trailing carriage returns off every line
ReadLine(l, first) ==
    StripCR(IF first /\ l # <<>> /\ l[1] = BOM THEN Tail(l) ELSE l)

\* History::read_history_from, given the lines BufReader::lines yields
read_history_from(h, file) ==
    [h EXCEPT !.lines = [i \in 1..Len(file) |-> ReadLine(file[i], i = 1)]]

\* add_line without the splice that removes the oldest lines
add_line_KeepOldest(h, line) ==
    [history |-> [h EXCEPT !.lines = Append(IF h.strip_duplicates
                                            THEN SelectSeq(h.lines, LAMBDA x : x # line)
                                            ELSE h.lines, line)],
     res |-> "ok"]

\* add_line without the loop that removes the copies of the line
add_line_KeepCopies(h, line) ==
    LET lim == IF IsSome(h.limit) THEN Unwrap(h.limit) - 1 ELSE Len(h.lines)
    IN [history |-> [h EXCEPT !.lines =
                        Append(IF Len(h.lines) > lim
                               THEN SubSeq(h.lines, Len(h.lines) - lim + 1, Len(h.lines))
                               ELSE h.lines, line)],
        res |-> "ok"]

\* add_line that enforces the limit first and removes the copies after
add_line_LimitFirst(h, line) ==
    LET lim == IF IsSome(h.limit) THEN Unwrap(h.limit) - 1 ELSE Len(h.lines)
        cut == IF IsSome(h.limit) /\ Len(h.lines) > lim
               THEN SubSeq(h.lines, Len(h.lines) - lim + 1, Len(h.lines)) ELSE h.lines
        kept == IF h.strip_duplicates THEN SelectSeq(cut, LAMBDA x : x # line) ELSE cut
    IN [history |-> [h EXCEPT !.lines = Append(kept, line)], res |-> "ok"]

\* History::add_line: res is "err" when the autosave handler failed
add_line(h, line) ==
    LET kept == IF h.strip_duplicates
                THEN SelectSeq(h.lines, LAMBDA x : x # line) ELSE h.lines
        lim == IF IsSome(h.limit) THEN Unwrap(h.limit) - 1 ELSE Len(kept)
        cut == IF IsSome(h.limit) /\ Len(kept) > lim
               THEN SubSeq(kept, Len(kept) - lim + 1, Len(kept)) ELSE kept
        h1 == [h EXCEPT !.lines = Append(cut, line)]
        due == IsSome(h.autosave_interval)
               /\ h.lines_since_last_autosave + 1 >= Unwrap(h.autosave_interval)
        h2 == IF IsSome(h.autosave_interval)
              THEN [h1 EXCEPT !.lines_since_last_autosave = IF due THEN 0 ELSE @ + 1]
              ELSE h1
    IN [history |-> h2, res |-> IF due /\ h.autosave = "fail" THEN "err" ELSE "ok"]

\* TtyState::cursor_on
cursor_on(st, f(_)) ==
    st.input_cursor < ByteLen(st.input) /\ f(CharAt(st.input, st.input_cursor))

\* TtyState::cursor_on_invisible
cursor_on_invisible(st) == st.input_cursor > 0 /\ cursor_on(st, LAMBDA x : CharWidth(x) = 0)

\* TtyState::cursor_on_invisible_or_space
cursor_on_invisible_or_space(st) ==
    st.input_cursor > 0 /\ cursor_on(st, LAMBDA x : IsWhitespace(x) \/ CharWidth(x) = 0)

\* TtyState::cursor_on_invisible_or_nonspace
cursor_on_invisible_or_nonspace(st) ==
    st.input_cursor > 0 /\ cursor_on(st, LAMBDA x : ~IsWhitespace(x) \/ CharWidth(x) = 0)

\* TtyState::cursor_on_nonspace
cursor_on_nonspace(st) == cursor_on(st, LAMBDA x : ~IsWhitespace(x))

\* TtyState::dismiss_notice
dismiss_notice(st) ==
    IF IsSome(st.notice) THEN [st EXCEPT !.rollout_needed = TRUE, !.notice = None]
    ELSE st

RECURSIVE SkipBackInvisible(_)
\* while !is_char_boundary(cursor) || cursor_on_invisible() { cursor -= 1 }
SkipBackInvisible(st) ==
    IF ~IsCharBoundary(st.input, st.input_cursor) \/ cursor_on_invisible(st)
    THEN SkipBackInvisible([st EXCEPT !.input_cursor = @ - 1])
    ELSE st

RECURSIVE SkipBackInvisibleOrSpace(_)
\* while !is_char_boundary(cursor) || cursor_on_invisible_or_space() { cursor -= 1 }
SkipBackInvisibleOrSpace(st) ==
    IF ~IsCharBoundary(st.input, st.input_cursor) \/ cursor_on_invisible_or_space(st)
    THEN SkipBackInvisibleOrSpace([st EXCEPT !.input_cursor = @ - 1])
    ELSE st

RECURSIVE SkipBackInvisibleOrNonspace(_)
\* while !is_char_boundary(cursor) || cursor_on_invisible_or_nonspace() { cursor -= 1 }
SkipBackInvisibleOrNonspace(st) ==
    IF ~IsCharBoundary(st.input, st.input_cursor) \/ cursor_on_invisible_or_nonspace(st)
    THEN SkipBackInvisibleOrNonspace([st EXCEPT !.input_cursor = @ - 1])
    ELSE st

RECURSIVE SkipForeInvisible(_)
\* while !is_char_boundary(cursor) || cursor_on_invisible() { cursor += 1 }
\* Past the end of input no offset is a boundary: the counter runs until the
\* addition overflows.
SkipForeInvisible(st) ==
    IF st.input_cursor > ByteLen(st.input) THEN Panic(st)
    ELSE IF ~IsCharBoundary(st.input, st.input_cursor) \/ cursor_on_invisible(st)
    THEN SkipForeInvisible([st EXCEPT !.input_cursor = @ + 1])
    ELSE st

RECURSIVE SkipForeBoundary(_)
\* while !is_char_boundary(cursor) { cursor += 1 }
SkipForeBoundary(st) ==
    IF st.input_cursor > ByteLen(st.input) THEN Panic(st)
    ELSE IF ~IsCharBoundary(st.input, st.input_cursor)
    THEN SkipForeBoundary([st EXCEPT !.input_cursor = @ + 1])
    ELSE st

\* TtyState::handle_char_input
handle_char_input(st, ch) ==
    LET s1 == [st EXCEPT !.rollout_needed = TRUE, !.notice = None]
    IN IF ~IsCharBoundary(s1.input, s1.input_cursor) THEN Panic(s1)
       ELSE SkipForeBoundary(
                [s1 EXCEPT !.input = StrInsert(s1.input, s1.input_cursor, <<ch>>),
                           !.input_cursor = @ + 1])

\* TtyState::handle_right_arrow
handle_right_arrow(st) ==
    LET s1 == dismiss_notice(st)
    IN IF s1.input_cursor < ByteLen(s1.input)
       THEN SkipForeInvisible([s1 EXCEPT !.rollout_needed = TRUE, !.input_cursor = @ + 1])
       ELSE s1

\* a left arrow that moves the cursor and asks for no rollout
handle_left_arrow_NoRollout(st) ==
    LET s1 == dismiss_notice(st)
    IN IF s1.input_cursor > 0
       THEN SkipBackInvisible([s1 EXCEPT !.input_cursor = @ - 1])
       ELSE s1

\* TtyState::handle_left_arrow
handle_left_arrow(st) ==
    LET s1 == dismiss_notice(st)
    IN IF s1.input_cursor > 0
       THEN SkipBackInvisible([s1 EXCEPT !.rollout_needed = TRUE, !.input_cursor = @ - 1])
       ELSE s1

\* TtyState::handle_home
handle_home(st) ==
    LET s1 == dismiss_notice(st)
    IN IF s1.input_cursor > 0
       THEN [s1 EXCEPT !.rollout_needed = TRUE, !.input_cursor = 0]
       ELSE s1

\* TtyState::handle_end
handle_end(st) ==
    LET s1 == dismiss_notice(st)
    IN IF s1.input_cursor < ByteLen(s1.input)
       THEN [s1 EXCEPT !.rollout_needed = TRUE, !.input_cursor = ByteLen(s1.input)]
       ELSE s1

\* TtyState::handle_discard
handle_discard(st) ==
    LET s1 == dismiss_notice(st)
        taken == s1.input
        s2 == SendResponse([s1 EXCEPT !.input = <<>>, !.cur_history_index = None,
                                      !.orphaned_new_input = None,
                                      !.history_original_line = None],
                           "Discarded", taken)
    IN IF taken # <<>>
       THEN [s2 EXCEPT !.rollout_needed = TRUE, !.input = <<>>, !.input_cursor = 0]
       ELSE s2

\* TtyState::rollin
rollin(st) ==
    IF IsSome(st.remembered_output)
    THEN TermWrite([st EXCEPT !.remembered_output = None, !.rollout_needed = TRUE],
                   rollin_term(st.term, st.remembered_output, st.input_allowed))
    ELSE st

\* TtyState::handle_clear
handle_clear(st) ==
    LET s1 == rollin(st)
    IN IF s1.result # "ok" THEN s1
       ELSE TermWrite([s1 EXCEPT !.rollout_needed = TRUE, !.notice = None],
                      clear_all_and_reset(s1.term))

\* TtyState::handle_kill_to_end
handle_kill_to_end(st) ==
    LET s1 == dismiss_notice(st)
    IN IF s1.input_cursor < ByteLen(s1.input)
       THEN IF ~IsCharBoundary(s1.input, s1.input_cursor)
            THEN Panic([s1 EXCEPT !.rollout_needed = TRUE])
            ELSE [s1 EXCEPT !.rollout_needed = TRUE,
                            !.clipboard = ByteSlice(s1.input, s1.input_cursor,
                                                    ByteLen(s1.input)),
                            !.input = StrRemove(s1.input, s1.input_cursor,
                                                ByteLen(s1.input))]
       ELSE s1

\* TtyState::handle_kill_to_start
handle_kill_to_start(st) ==
    LET s1 == dismiss_notice(st)
    IN IF s1.input_cursor > 0
       THEN IF ~IsCharBoundary(s1.input, s1.input_cursor)
            THEN Panic([s1 EXCEPT !.rollout_needed = TRUE])
            ELSE [s1 EXCEPT !.rollout_needed = TRUE,
                            !.clipboard = ByteSlice(s1.input, 0, s1.input_cursor),
                            !.input = StrRemove(s1.input, 0, s1.input_cursor),
                            !.input_cursor = 0]
       ELSE s1

\* TtyState::handle_yank
handle_yank(st) ==
    LET s1 == [dismiss_notice(st) EXCEPT !.rollout_needed = TRUE]
    IN IF ~IsCharBoundary(s1.input, s1.input_cursor) THEN Panic(s1)
       ELSE [s1 EXCEPT !.input = StrInsert(s1.input, s1.input_cursor, s1.clipboard),
                       !.input_cursor = @ + ByteLen(s1.clipboard)]

\* TtyState::handle_delete_back
handle_delete_back(st) ==
    LET s1 == dismiss_notice(st)
        end_index == s1.input_cursor
        s2 == SkipBackInvisible([s1 EXCEPT !.rollout_needed = TRUE,
                                           !.input_cursor = @ - 1])
    IN IF s1.input_cursor > 0
       THEN IF ~IsCharBoundary(s2.input, end_index) THEN Panic(s2)
            ELSE [s2 EXCEPT !.input = StrRemove(s2.input, s2.input_cursor, end_index)]
       ELSE s1

\* TtyState::handle_delete_fore
handle_delete_fore(st) ==
    LET s1 == dismiss_notice(st)
        start_index == s1.input_cursor
        s2 == SkipForeInvisible([s1 EXCEPT !.rollout_needed = TRUE,
                                           !.input_cursor = @ + 1])
    IN IF s1.input_cursor < ByteLen(s1.input)
       THEN IF s2.result # "ok" THEN s2
            ELSE IF ~IsCharBoundary(s2.input, start_index) THEN Panic(s2)
            ELSE [s2 EXCEPT !.input = StrRemove(s2.input, start_index, s2.input_cursor),
                            !.input_cursor = start_index]
       ELSE s1

\* handle_delete_word without the step forward off the blank it stopped on
handle_delete_word_TakesBlank(st) ==
    LET s1 == dismiss_notice(st)
        end_index == s1.input_cursor
        s2 == SkipBackInvisibleOrSpace([s1 EXCEPT !.rollout_needed = TRUE,
                                                  !.input_cursor = @ - 1])
        s4 == IF s2.input_cursor > 0 THEN SkipBackInvisibleOrNonspace(s2) ELSE s2
    IN IF s1.input_cursor > 0
       THEN IF s4.result # "ok" THEN s4
            ELSE IF ~IsCharBoundary(s4.input, end_index) THEN Panic(s4)
            ELSE [s4 EXCEPT !.input = StrRemove(s4.input, s4.input_cursor, end_index)]
       ELSE s1

\* TtyState::handle_delete_word
handle_delete_word(st) ==
    LET s1 == dismiss_notice(st)
        end_index == s1.input_cursor
        s2 == SkipBackInvisibleOrSpace([s1 EXCEPT !.rollout_needed = TRUE,
                                                  !.input_cursor = @ - 1])
        s3 == SkipBackInvisibleOrNonspace(s2)
        s4 == IF s2.input_cursor > 0
              THEN IF ~cursor_on_nonspace(s3)
                   THEN SkipForeInvisible([s3 EXCEPT !.input_cursor = @ + 1])
                   ELSE s3
              ELSE s2
    IN IF s1.input_cursor > 0
       THEN IF s4.result # "ok" THEN s4
            ELSE IF ~IsCharBoundary(s4.input, end_index) THEN Panic(s4)
            ELSE [s4 EXCEPT !.input = StrRemove(s4.input, s4.input_cursor, end_index)]
       ELSE s1

\* TtyState::show_notice: the send blocks while the channel is full and fails
\* once the receiver has been dropped
show_notice(st, line, duration) ==
    LET deadline == st.now + duration
        s1 == [st EXCEPT !.rollout_needed = TRUE,
                         !.notice = Some([line |-> line, deadline |-> deadline])]
    IN IF st.ded_open THEN [s1 EXCEPT !.ded = Append(@, deadline)] ELSE Fail(s1)

\* Duration::from_secs(3) of the notice for a failed history write
HistoryErrorSecs == 3

\* handle_return that leaves the place in the history as it is
handle_return_KeepsIndex(st) ==
    LET taken == st.input
        added == add_line(st.history, taken)
        s1 == [st EXCEPT !.rollout_needed = TRUE, !.notice = None, !.input = <<>>,
                         !.input_cursor = 0, !.history = added.history]
        s2 == IF added.res = "err"
              THEN show_notice(s1, add_text(set_style(LineNew, {"INVERSE"}), <<33>>),
                               HistoryErrorSecs)
              ELSE s1
    IN IF s2.result # "ok" THEN s2 ELSE SendResponse(s2, "Input", taken)

\* TtyState::handle_return
handle_return(st) ==
    LET taken == st.input
        added == add_line(st.history, taken)
        s1 == [st EXCEPT !.rollout_needed = TRUE, !.notice = None, !.input = <<>>,
                         !.input_cursor = 0, !.cur_history_index = None,
                         !.orphaned_new_input = None, !.history_original_line = None,
                         !.history = added.history]
        s2 == IF added.res = "err"
              THEN show_notice(s1, \* liso!(inverse, e)
                               add_text(set_style(LineNew, {"INVERSE"}), <<33>>),
                               HistoryErrorSecs)
              ELSE s1
    IN IF s2.result # "ok" THEN s2 ELSE SendResponse(s2, "Input", taken)

\* TtyState::handle_finish
handle_finish(st) ==
    IF st.input = <<>> THEN SendResponse(st, "Finish", <<>>)
    ELSE [st EXCEPT !.rollout_needed = TRUE, !.input = <<>>,
                    !.cur_history_index = None, !.orphaned_new_input = None,
                    !.history_original_line = None, !.input_cursor = 0]

\* TtyState::history_prev
history_prev(st) ==
    LET lines == st.history.lines
        prev_history_index ==
            IF ~IsSome(st.cur_history_index)
            THEN IF Len(lines) > 0 THEN Some(Len(lines) - 1) ELSE None
            ELSE IF Unwrap(st.cur_history_index) > 0
            THEN Some(Unwrap(st.cur_history_index) - 1)
            ELSE None
        s1 == IF ~IsSome(prev_history_index) THEN TermWrite(st, bell(st.term))
              ELSE IF Unwrap(prev_history_index) >= Len(lines) THEN Panic(st)
              ELSE [st EXCEPT !.rollout_needed = TRUE,
                              !.input = lines[Unwrap(prev_history_index) + 1],
                              !.orphaned_new_input =
                                  IF IsSome(@) THEN @ ELSE Some(st.input),
                              !.input_cursor =
                                  ByteLen(lines[Unwrap(prev_history_index) + 1]),
                              !.cur_history_index = prev_history_index]
    IN IF s1.result # "ok" THEN s1
       ELSE IF IsSome(s1.cur_history_index) /\ Unwrap(s1.cur_history_index) >= Len(lines)
       THEN Panic(s1)
       ELSE [s1 EXCEPT !.history_original_line =
                IF IsSome(s1.cur_history_index)
                THEN Some(lines[Unwrap(s1.cur_history_index) + 1]) ELSE None]

\* history_next that leaves the input alone when it steps off the newest entry
history_next_KeepsEntry(st) ==
    IF ~IsSome(st.cur_history_index) THEN TermWrite(st, bell(st.term))
    ELSE IF Unwrap(st.cur_history_index) + 1 = Len(st.history.lines)
    THEN [st EXCEPT !.rollout_needed = TRUE, !.orphaned_new_input = None,
                    !.cur_history_index = None, !.history_original_line = None]
    ELSE [st EXCEPT !.rollout_needed = TRUE,
                    !.input = st.history.lines[Unwrap(st.cur_history_index) + 2],
                    !.input_cursor = ByteLen(st.history.lines[Unwrap(st.cur_history_index) + 2]),
                    !.cur_history_index = Some(Unwrap(st.cur_history_index) + 1),
                    !.history_original_line =
                        Some(st.history.lines[Unwrap(st.cur_history_index) + 2])]

\* TtyState::history_next
history_next(st) ==
    LET lines == st.history.lines
        x == Unwrap(st.cur_history_index)
        s1 == IF ~IsSome(st.cur_history_index) THEN TermWrite(st, bell(st.term))
              ELSE IF x + 1 = Len(lines)
              THEN IF ~IsSome(st.orphaned_new_input) THEN Panic(st)
                   ELSE [st EXCEPT !.rollout_needed = TRUE,
                                   !.input = Unwrap(st.orphaned_new_input),
                                   !.orphaned_new_input = None,
                                   !.input_cursor = ByteLen(Unwrap(st.orphaned_new_input)),
                                   !.cur_history_index = None]
              ELSE IF x + 1 >= Len(lines) THEN Panic(st)
              ELSE [st EXCEPT !.rollout_needed = TRUE,
                              !.input = lines[x + 2],
                              !.orphaned_new_input =
                                  IF IsSome(@) THEN @ ELSE Some(st.input),
                              !.input_cursor = ByteLen(lines[x + 2]),
                              !.cur_history_index = Some(x + 1)]
    IN IF s1.result # "ok" THEN s1
       ELSE IF IsSome(s1.cur_history_index) /\ Unwrap(s1.cur_history_index) >= Len(lines)
       THEN Panic(s1)
       ELSE [s1 EXCEPT !.history_original_line =
                IF IsSome(s1.cur_history_index)
                THEN Some(lines[Unwrap(s1.cur_history_index) + 1]) ELSE None]

\* the BumpHistory arm of TtyState::handle
bump_history(st) ==
    LET lines == st.history.lines
        hits == IF IsSome(st.history_original_line)
                THEN {i \in 1..Len(lines) : lines[i] = Unwrap(st.history_original_line)}
                ELSE {}
        found == IF hits = {} THEN None
                 ELSE Some((CHOOSE i \in hits : \A j \in hits : j <= i) - 1)
    IN IF ~IsSome(st.cur_history_index) THEN st
       ELSE IF ~IsSome(found)
       THEN [st EXCEPT !.cur_history_index = None, !.orphaned_new_input = None,
                       !.history_original_line = None]
       ELSE [st EXCEPT !.cur_history_index = found,
                       !.history_original_line = Some(lines[Unwrap(found) + 1])]

\* with nothing remembered the composite is drawn from the row of the cursor
StartsHere(t, rem) ==
    IF IsSome(t.origin) /\ ~IsSome(rem) THEN [t EXCEPT !.origin = Some(t.row)] ELSE t

\* TtyState::rollout
rollout(st) ==
    IF ~st.rollout_needed THEN st
    ELSE LET s1 == [st EXCEPT !.rollout_needed = FALSE, !.rollouts = @ + 1]
             top == IF IsSome(st.status) THEN reset_and_break(Unwrap(st.status))
                    ELSE LineNew
             prompted == IF IsSome(st.prompt) THEN append_line(top, Unwrap(st.prompt))
                         ELSE top
             new_output == IF IsSome(st.notice)
                           THEN append_line(top, Unwrap(st.notice).line)
                           ELSE add_text(prompted, st.input)
             cursor_pos == IF IsSome(st.notice) THEN None
                           ELSE Some(st.input_cursor + LineLen(prompted))
         IN IF ~st.term_ok THEN Fail(s1)
            ELSE Bind(output_line_changes(hide_cursor(StartsHere(st.term,
                                                                 st.remembered_output)),
                                          st.remembered_output,
                                          new_output, cursor_pos, FALSE, TRUE),
                      LAMBDA res :
                 IF res.panicked
                 THEN Panic([s1 EXCEPT !.term = res.term])
                 ELSE [s1 EXCEPT !.remembered_output = res.remembered,
                                 !.term = IF ~IsSome(st.notice) /\ st.input_allowed
                                          THEN show_cursor(res.term) ELSE res.term])

RECURSIVE OutputChars(_, _, _, _)
\* the char_indices loop of output_line for one element; o holds the
\* terminal and cur_column
OutputChars(o, chars, k, el) ==
    IF k > Len(chars) THEN o
    ELSE LET ch == chars[k]
             brk == (CharWidth(ch) > 0 /\ o.cur_column >= TermWidth) \/ ch = NL
             filled == IF o.cur_column < TermWidth
                       THEN IF "INVERSE" \in o.term.cur_style
                               \/ "UNDERLINE" \in o.term.cur_style \/ el.bg # NoColor
                            THEN print_spaces(o.term, TermWidth - o.cur_column)
                            ELSE clear_to_end_of_line(o.term)
                       ELSE o.term
             t1 == IF brk THEN newline(filled) ELSE o.term
             t2 == IF ch # NL THEN print_char(t1, ch) ELSE t1
         IN OutputChars([term |-> t2,
                         cur_column |-> (IF brk THEN 0 ELSE o.cur_column) + CharWidth(ch)],
                        chars, k + 1, el)

RECURSIVE OutputElements(_, _, _)
\* the element loop of output_line
OutputElements(o, line, e) ==
    IF e > Len(line.elements) THEN o
    ELSE OutputElements(
            OutputChars([o EXCEPT !.term = set_attrs(o.term, line.elements[e].style,
                                                     line.elements[e].fg,
                                                     line.elements[e].bg)],
                        ByteSlice(line.text, line.elements[e].start,
                                  line.elements[e].end),
                        1, line.elements[e]),
            line, e + 1)

\* TtyState::output_line: the terminal it leaves
output_line(t, line) ==
    LET o == OutputElements([term |-> t, cur_column |-> 0], line, 1)
        trailit == line.elements # <<>> /\ FillsVisibly(line.elements[LastIdx(line)])
        t1 == IF trailit /\ o.cur_column < TermWidth
              THEN print_spaces(o.term, TermWidth - o.cur_column) ELSE o.term
        t2 == set_attrs(t1, PLAIN, NoColor, NoColor)
        t3 == IF o.cur_column # TermWidth THEN clear_to_end_of_line(t2) ELSE t2
    IN newline(t3)

\* Crossterminal::suspend, with terminal::disable_raw_mode
suspend_term(st) ==
    IF st.term.suspended THEN Panic(st)
    ELSE IF ~st.term_ok THEN Fail(st)
    ELSE [st EXCEPT !.term = suspend(st.term), !.raw_mode = FALSE]

\* Crossterminal::unsuspend, with terminal::enable_raw_mode
unsuspend_term(st) ==
    IF ~st.term.suspended THEN Panic(st)
    ELSE IF ~st.term_ok THEN Fail(st)
    ELSE [st EXCEPT !.term = unsuspend(st.term), !.raw_mode = TRUE]

\* TtyState::handle_suspend; println!("^Z") goes to the screen between
\* suspend and unsuspend
handle_suspend(st) ==
    Bind(rollout(st), LAMBDA s1 :
    IF s1.result # "ok" THEN s1 ELSE
    Bind(TermWrite([s1 EXCEPT !.remembered_output = None],
                   set_attrs(s1.term, PLAIN, NoColor, NoColor)), LAMBDA s2 :
    IF s2.result # "ok" THEN s2 ELSE
    Bind(suspend_term(s2), LAMBDA s3 :
    IF s3.result # "ok" THEN s3 ELSE
    Bind(unsuspend_term(
             [s3 EXCEPT !.term = newline(PutChar(PutChar(s3.term, 94), 90))]),
         LAMBDA s4 :
    IF s4.result # "ok" THEN s4 ELSE [s4 EXCEPT !.rollout_needed = TRUE]))))

\* what an installed Completor answers
NoCompletion == [kind |-> "None", text |-> <<>>, cursor |-> 0]
InsertAtCursor(text) == [kind |-> "InsertAtCursor", text |-> text, cursor |-> 0]
ReplaceWholeLine(new_line, new_cursor) ==
    [kind |-> "ReplaceWholeLine", text |-> new_line, cursor |-> new_cursor]

\* TtyState::handle_completion; the completor is the answer it gives
handle_completion(st) ==
    IF ~IsSome(st.completor) THEN st
    ELSE IF st.consecutive_completion_presses = 0 THEN Panic(st)
    ELSE LET c == Unwrap(st.completor)
         IN IF c.kind = "InsertAtCursor"
            THEN IF c.text = <<>> THEN st
                 ELSE IF ~IsCharBoundary(st.input, st.input_cursor)
                 THEN Panic([st EXCEPT !.rollout_needed = TRUE])
                 ELSE [st EXCEPT !.rollout_needed = TRUE,
                                 !.input = StrInsert(st.input, st.input_cursor, c.text),
                                 !.input_cursor = @ + ByteLen(c.text)]
            ELSE IF c.kind = "ReplaceWholeLine"
            THEN IF c.cursor > ByteLen(c.text) THEN Panic(st)
                 ELSE IF c.text # st.input \/ c.cursor # st.input_cursor
                 THEN [st EXCEPT !.rollout_needed = TRUE, !.input = c.text,
                                 !.input_cursor = c.cursor]
                 ELSE st
            ELSE st

-----------------------------------------------------------------------------
(* Requests and TtyState::handle *)

\* a Request: arg is the Option<Line> (or Option<Completor>) it carries,
\* text its String, n its number (duration, code point, payload), a and b
\* its flags, code the KeyCode of a key event; seq numbers the requests that
\* the InputOutput's own handle sent (0: sent by someone else)
Req(kind, arg, text, n, a, b, code) ==
    [kind |-> kind, arg |-> arg, text |-> text, n |-> n, a |-> a, b |-> b,
     code |-> code, seq |-> 0]

ReqNotice(line, duration) == Req("Notice", Some(line), <<>>, duration, FALSE, FALSE, "")
ReqPrompt(line, input_allowed_, clear_input) ==
    Req("Prompt", line, <<>>, 0, input_allowed_, clear_input, "")
ReqRawInput(text) == Req("RawInput", None, text, 0, FALSE, FALSE, "")
ReqKey(ctrl, code, ch) == Req("Key", None, <<>>, ch, ctrl, FALSE, code)
ReqDie == Req("Die", None, <<>>, 0, FALSE, FALSE, "")
ReqHeartbeat == Req("Heartbeat", None, <<>>, 0, FALSE, FALSE, "")
ReqCustom(x) == Req("Custom", None, <<>>, x, FALSE, FALSE, "")
ReqOutput(kind, line) == Req(kind, Some(line), <<>>, 0, FALSE, FALSE, "")
ReqStderrLine(text) == Req("StderrLine", None, text, 0, FALSE, FALSE, "")
ReqStatus(line) == Req("Status", line, <<>>, 0, FALSE, FALSE, "")
ReqSuspendAndRun == Req("SuspendAndRun", None, <<>>, 0, FALSE, FALSE, "")
ReqBumpHistory == Req("BumpHistory", None, <<>>, 0, FALSE, FALSE, "")
ReqSetCompletor(c) == Req("SetCompletor", c, <<>>, 0, FALSE, FALSE, "")

\* u32::saturating_add(1); the counters of the model stay far below u32::MAX
SaturatingInc(n) == n + 1

\* the match on one character of raw input in handle_input
RawInputChar(st, ch) ==
    LET s0 == [st EXCEPT !.consecutive_completion_presses =
                            IF ch = TAB THEN SaturatingInc(@) ELSE 0]
    IN CASE ch = 1 -> handle_home(s0)
         [] ch = 2 -> handle_left_arrow(s0)
         [] ch = 3 -> SendResponse(s0, "Quit", <<>>)
         [] ch = 4 -> handle_finish(s0)
         [] ch = 5 -> handle_end(s0)
         [] ch = 6 -> handle_right_arrow(s0)
         [] ch = 7 -> handle_discard(s0)
         [] ch = 11 -> handle_kill_to_end(s0)
         [] ch = 12 -> handle_clear(s0)
         [] ch = 14 -> history_next(s0)
         [] ch = 16 -> history_prev(s0)
         [] ch = 20 -> SendResponse(s0, "Info", <<>>)
         [] ch = 21 -> handle_kill_to_start(s0)
         [] ch = 23 -> handle_delete_word(s0)
         [] ch = 24 -> SendResponse(s0, "Swap", <<>>)
         [] ch = 25 -> handle_yank(s0)
         [] ch = 26 -> handle_suspend(s0)
         [] ch = TAB -> handle_completion(s0)
         [] ch = 27 -> SendResponse(s0, "Escape", <<>>)
         [] ch = 28 -> SendResponse(s0, "Break", <<>>)
         [] ch = NL \/ ch = 13 -> handle_return(s0)
         [] ch = 8 \/ ch = 127 -> handle_delete_back(s0)
         [] OTHER -> IF ch < 32 \/ (ch >= 128 /\ ch <= 159)
                     THEN SendResponse(s0, "Unknown", <<ch % 256>>)
                     ELSE handle_char_input(s0, ch)

RECURSIVE RawInputChars(_, _, _)
\* for ch in input.chars() { ... ? }
RawInputChars(st, text, k) ==
    IF k > Len(text) \/ st.result # "ok" THEN st
    ELSE RawInputChars(RawInputChar(st, text[k]), text, k + 1)

\* TtyState::handle_input
handle_input(st, text) ==
    IF ~st.input_allowed THEN st ELSE RawInputChars(st, text, 1)

\* the Event::Key arm of handle_event: ctrl is the CONTROL modifier, code the
\* KeyCode, ch the character of KeyCode::Char
handle_key(st, ctrl, code, ch) ==
    IF ctrl
    THEN LET s0 == [st EXCEPT !.consecutive_completion_presses =
                        IF code = "Char" /\ ch = 105 THEN SaturatingInc(@) ELSE 0]
         IN IF code # "Char" THEN s0
            ELSE CASE ch = 97 -> handle_home(s0)
                   [] ch = 98 -> handle_left_arrow(s0)
                   [] ch = 99 -> SendResponse(s0, "Quit", <<>>)
                   [] ch = 100 -> handle_finish(s0)
                   [] ch = 101 -> handle_end(s0)
                   [] ch = 102 -> handle_right_arrow(s0)
                   [] ch = 103 -> handle_discard(s0)
                   [] ch = 107 -> handle_kill_to_end(s0)
                   [] ch = 108 -> handle_clear(s0)
                   [] ch = 110 -> history_next(s0)
                   [] ch = 112 -> history_prev(s0)
                   [] ch = 116 -> SendResponse(s0, "Info", <<>>)
                   [] ch = 117 -> handle_kill_to_start(s0)
                   [] ch = 119 -> handle_delete_word(s0)
                   [] ch = 120 -> SendResponse(s0, "Swap", <<>>)
                   [] ch = 121 -> handle_yank(s0)
                   [] ch = 122 -> handle_suspend(s0)
                   [] ch = 92 -> SendResponse(s0, "Break", <<>>)
                   [] ch = 105 -> handle_completion(s0)
                   [] ch = 106 \/ ch = 109 -> handle_return(s0)
                   [] OTHER -> IF ch >= 64 /\ ch <= 126
                               THEN SendResponse(s0, "Unknown", <<(ch % 256) % 32>>)
                               ELSE s0
    ELSE LET s0 == [st EXCEPT !.consecutive_completion_presses =
                        IF code = "Tab" THEN SaturatingInc(@) ELSE 0]
         IN CASE code = "Char" -> IF ~IsControl(ch) /\ ch # 8232 /\ ch # 8233
                                  THEN handle_char_input(s0, ch) ELSE s0
              [] code = "Tab" -> handle_completion(s0)
              [] code = "Esc" -> SendResponse(s0, "Escape", <<>>)
              [] code = "Enter" -> handle_return(s0)
              [] code = "Backspace" -> handle_delete_back(s0)
              [] code = "Delete" -> handle_delete_fore(s0)
              [] code = "Up" -> history_prev(s0)
              [] code = "Down" -> history_next(s0)
              [] code = "Left" -> handle_left_arrow(s0)
              [] code = "Right" -> handle_right_arrow(s0)
              [] code = "Home" -> handle_home(s0)
              [] code = "End" -> handle_end(s0)
              [] OTHER -> s0

\* TtyState::handle_event
handle_event(st, req) ==
    IF ~st.input_allowed THEN st
    ELSE IF req.kind = "Resize" THEN rollin(st)
    ELSE IF req.kind = "Key" THEN handle_key(st, req.a, req.code, req.n)
    ELSE st

\* the Output arm of handle: rollin, output_line, reset_attrs
handle_output(st, line) ==
    LET s1 == rollin(st)
    IN IF s1.result # "ok" THEN s1
       ELSE TermWrite([s1 EXCEPT !.out_at =
                            Some([row |-> s1.term.row, col |-> s1.term.col,
                                  origin |-> s1.term.origin,
                                  rem |-> s1.remembered_output,
                                  was |-> st.remembered_output,
                                  rollout_needed |-> s1.rollout_needed])],
                      reset_attrs(output_line(s1.term, line)))

\* liso!(fg = red, bold, "E: ", -bold, text), text without its trailing CR
StderrLine(text) ==
    add_text(deactivate_style(
                 add_text(activate_style(set_fg_color(LineNew, "red"), {"BOLD"}),
                          <<69, 58, SPACE>>),
                 {"BOLD"}),
             IF text # <<>> /\ text[Len(text)] = CR
             THEN SubSeq(text, 1, Len(text) - 1) ELSE text)

\* what the closure of SuspendAndRun finds when it is called in state s:
\* "suspended" when the terminal is suspended, out of raw mode, and nothing of
\* the composite is left from the cursor on; "exposed" otherwise
ClosureFinds(s) ==
    IF /\ s.term.suspended
       /\ ~s.raw_mode
       /\ s.remembered_output = None
       /\ \A r \in 0..(TermRows - 1), c \in 0..(TermWidth - 1) :
              (r > s.term.row \/ (r = s.term.row /\ c >= s.term.col))
                  => s.term.cells[r][c] = BlankCell(NoColor)
    THEN "suspended" ELSE "exposed"

\* the SuspendAndRun arm of handle; the closure writes nothing to the screen
handle_suspend_and_run(st) ==
    LET s1 == rollin(st)
        s2 == suspend_term([s1 EXCEPT !.remembered_output = None])
    IN IF s1.result # "ok" THEN s1
       ELSE IF s2.result # "ok" THEN s2
       ELSE unsuspend_term([s2 EXCEPT !.closure = ClosureFinds(s2)])

\* the Prompt arm of handle
handle_prompt(st, line, allowed, clear_input) ==
    IF st.prompt # line \/ (clear_input /\ st.input # <<>>)
    THEN LET s1 == [st EXCEPT !.rollout_needed = TRUE, !.prompt = line,
                              !.input_allowed = allowed]
         IN IF clear_input
            THEN [s1 EXCEPT !.input = <<>>, !.cur_history_index = None,
                            !.orphaned_new_input = None,
                            !.history_original_line = None]
            ELSE s1
    ELSE st

\* the Heartbeat arm of handle
handle_heartbeat(st) ==
    IF IsSome(st.notice) /\ st.now >= Unwrap(st.notice).deadline
    THEN [st EXCEPT !.rollout_needed = TRUE, !.notice = None]
    ELSE st

\* TtyState::handle
handle(st, req) ==
    CASE req.kind \in {"Output", "OutputEcho"} -> handle_output(st, Unwrap(req.arg))
      [] req.kind = "StderrLine" -> handle_output(st, StderrLine(req.text))
      [] req.kind = "OutputWrapped" ->
            handle_output(st, wrap_to_width(Unwrap(req.arg), TermWidth))
      [] req.kind = "SuspendAndRun" -> handle_suspend_and_run(st)
      [] req.kind = "Status" ->
            IF st.status # req.arg
            THEN [st EXCEPT !.rollout_needed = TRUE, !.status = req.arg] ELSE st
      [] req.kind = "Notice" -> show_notice(st, Unwrap(req.arg), req.n)
      [] req.kind = "Prompt" -> handle_prompt(st, req.arg, req.a, req.b)
      [] req.kind = "Bell" -> TermWrite(st, bell(st.term))
      [] req.kind = "RawInput" -> handle_input(st, req.text)
      [] req.kind \in {"Key", "Resize", "Mouse"} -> handle_event(st, req)
      [] req.kind = "Die" -> st
      [] req.kind = "Heartbeat" -> handle_heartbeat(st)
      [] req.kind = "Custom" -> SendResponse(st, "Custom", <<req.n>>)
      [] req.kind = "BumpHistory" -> bump_history(st)
      [] req.kind = "SetCompletor" -> [st EXCEPT !.completor = req.arg]

-----------------------------------------------------------------------------
(* The threads: tty_worker / pipe_worker, the heartbeat thread, the input  *)
(* thread, and the thread that owns the InputOutput.                        *)

MAX_DEATH_COUNT == 9
DED_CAPACITY == 5       \* sync_channel(5)

ttyVars == <<status, prompt, notice, input, clipboard, input_cursor, input_allowed,
             history, cur_history_index, orphaned_new_input, history_original_line,
             completor, consecutive_completion_presses>>
chanVars == <<req_queue, resp_queue, resp_open, ded_queue>>
envVars == <<now, term_ok>>
instVars == <<features, LISO_OUTPUT_TX, LISO_IS_ACTIVE, instances>>
restVars == <<input_thread, history_call, nav, built, drawn, instVars>>
vars == <<term, remembered_output, rollout_needed, raw_mode, ttyVars, chanVars,
          envVars, worker, dying, heartbeat, client, last_handled, restVars>>

\* the TtyState as the worker holds it, with what a handler can reach
State ==
    [term |-> term, remembered_output |-> remembered_output, status |-> status,
     prompt |-> prompt, notice |-> notice, input |-> input, clipboard |-> clipboard,
     input_cursor |-> input_cursor, input_allowed |-> input_allowed,
     rollout_needed |-> rollout_needed, history |-> history,
     cur_history_index |-> cur_history_index,
     orphaned_new_input |-> orphaned_new_input,
     history_original_line |-> history_original_line, completor |-> completor,
     consecutive_completion_presses |-> consecutive_completion_presses,
     tx |-> <<>>, ded |-> <<>>, ded_open |-> heartbeat.pc # "exited", now |-> now,
     closure |-> "none", rollouts |-> 0, out_at |-> None,
     term_ok |-> term_ok, raw_mode |-> raw_mode, result |-> "ok"]

\* the panic hook installed by unsuspend: cursor shown, attributes reset,
\* erase from the cursor down, raw mode left
PanicHook(s) ==
    IF s.result = "panic" /\ ~s.term.suspended
    THEN [s EXCEPT !.raw_mode = FALSE,
                   !.term = IF s.term_ok
                            THEN [suspend(s.term) EXCEPT !.suspended = FALSE]
                            ELSE s.term]
    ELSE s

\* the fields of TtyState after a handler left them as s
Commit(s0) ==
    LET s == PanicHook(s0)
    IN /\ term' = s.term
       /\ remembered_output' = s.remembered_output
       /\ status' = s.status
       /\ prompt' = s.prompt
       /\ notice' = s.notice
       /\ input' = s.input
       /\ clipboard' = s.clipboard
       /\ input_cursor' = s.input_cursor
       /\ input_allowed' = s.input_allowed
       /\ rollout_needed' = s.rollout_needed
       /\ history' = s.history
       /\ cur_history_index' = s.cur_history_index
       /\ orphaned_new_input' = s.orphaned_new_input
       /\ history_original_line' = s.history_original_line
       /\ completor' = s.completor
       /\ consecutive_completion_presses' = s.consecutive_completion_presses
       /\ raw_mode' = s.raw_mode

\* After, when the worker repaints after each request instead of trying the
\* channel again
After_RepaintsAtOnce(s, pc) ==
    IF s.result = "ok" THEN [worker EXCEPT !.pc = IF pc = "inner" THEN "rollout" ELSE pc]
    ELSE [worker EXCEPT !.pc = "return", !.result = s.result]

\* where the worker goes after a call that ended as s: on with the loop, or
\* out of tty_worker through ? or a panic
After(s, pc) ==
    IF s.result = "ok" THEN [worker EXCEPT !.pc = pc]
    ELSE [worker EXCEPT !.pc = "return", !.result = s.result]

\* ded_tx.send blocks while the channel holds DED_CAPACITY deadlines
CanSend(s) ==
    s.ded = <<>> \/ heartbeat.pc = "exited"
                \/ Len(ded_queue) + Len(s.ded) <= DED_CAPACITY

\* the keys that move the cursor or edit the text around it
IsEditingKey(req) ==
    \/ /\ req.kind = "Key" /\ ~req.a
       /\ req.code \in {"Char", "Left", "Right", "Home", "End", "Backspace", "Delete"}
    \/ /\ req.kind = "Key" /\ req.a /\ req.code = "Char"
       /\ req.n \in {97, 98, 101, 102, 107, 117, 119, 121}
    \/ /\ req.kind = "RawInput" /\ req.text # <<>>
       /\ \A k \in 1..Len(req.text) :
              req.text[k] \in {1, 2, 5, 6, 8, 11, 21, 23, 25, 127} \/ ~IsControl(req.text[k])

\* Control-C: the byte 0x03 of raw input, or the key event Control+c
IsCtrlC(req) ==
    \/ req.kind = "RawInput" /\ req.text = <<3>>
    \/ req.kind = "Key" /\ req.a /\ req.code = "Char" /\ req.n = 99

\* what the worker handled last in the current batch: the kind of request,
\* whether it was an editing key or Control-C, whether a notice was showing
\* before it, whether it changed input, and the input_allowed a Prompt
\* request carried; s is the state the handler left
\* the request is Enter: the key, Control-J, Control-M, or one CR or LF of raw
\* input
IsReturn(req) ==
    \/ req.kind = "RawInput" /\ (req.text = <<13>> \/ req.text = <<NL>>)
    \/ req.kind = "Key" /\ ~req.a /\ req.code = "Enter"
    \/ req.kind = "Key" /\ req.a /\ req.code = "Char" /\ req.n \in {106, 109}

\* the request is the key Control-W
IsCtrlW(req) == req.kind = "Key" /\ req.a /\ req.code = "Char" /\ req.n = 119

\* the request is a press of the completion key: Tab, or Control-I
IsCompletionKey(req) ==
    req.kind = "Key" /\ ((~req.a /\ req.code = "Tab")
                         \/ (req.a /\ req.code = "Char" /\ req.n = 105))

\* tabs: the completion keys pressed in a row, no other key in between, up to
\* and including this request; called_with: the consecutive_presses the
\* completor was called with while this request was handled
Handled(req, s) ==
    [kind |-> req.kind, editing |-> IsEditingKey(req), had_notice |-> IsSome(notice),
     input_changed |-> s.input # input, result |-> s.result, ctrl_c |-> IsCtrlC(req),
     prompt_allowed |-> IF req.kind = "Prompt" THEN Some(req.a) ELSE None,
     tabs |-> IF IsCompletionKey(req) THEN last_handled.tabs + 1
              ELSE IF req.kind \in {"Key", "RawInput"} THEN 0
              ELSE last_handled.tabs,
     called_with |-> IF IsCompletionKey(req) /\ input_allowed /\ IsSome(completor)
                     THEN Some(s.consecutive_completion_presses) ELSE None,
     word_from |-> IF IsCtrlW(req) /\ input_allowed
                   THEN Some([input |-> input, input_cursor |-> input_cursor]) ELSE None,
     out_at |-> s.out_at,
     entered |-> IF IsReturn(req) /\ input_allowed
                 THEN Some([input |-> input, history |-> history]) ELSE None]
NothingHandled ==
    [kind |-> "", editing |-> FALSE, had_notice |-> FALSE, input_changed |-> FALSE,
     result |-> "ok", ctrl_c |-> FALSE, prompt_allowed |-> None,
     tabs |-> 0, called_with |-> None, word_from |-> None, out_at |-> None,
     entered |-> None]
\* a step that handles no request: the keys pressed so far stay pressed
NothingHandledNow == [NothingHandled EXCEPT !.tabs = last_handled.tabs]

\* the state tty_worker has built when it enters its loop (lines 1388-1416)
TtyFieldsInit ==
    /\ remembered_output = None
    /\ status = None
    /\ prompt = None
    /\ notice = None
    /\ input = <<>>
    /\ clipboard = <<>>
    /\ input_cursor = 0
    /\ input_allowed = TRUE
    /\ rollout_needed = FALSE
    /\ cur_history_index = None
    /\ orphaned_new_input = None
    /\ history_original_line = None
    /\ completor = None
    /\ consecutive_completion_presses = 0
    /\ dying = FALSE
    /\ last_handled = NothingHandled

TtyStateInit == term = TermNew /\ TtyFieldsInit

\* InputOutput::new: fresh channels, the client owns the receiver
\* the application has made no call on its History yet
NoHistoryCall == [op |-> "new", line |-> <<>>, before |-> <<>>]

\* Line::new in the hands of the application, no call made on it yet
LineBuildNew ==
    [line |-> LineNew, op |-> "new", arg |-> <<>>, before |-> LineNew, calls |-> 0,
     wrapped |-> FALSE, panicked |-> FALSE]

\* output_line_changes has not been called yet
NoDraw == [old |-> None, printed |-> {}, ops |-> <<>>, redraws |-> 0]

\* no history key pressed since the input became text, and no History
\* swapped in; bumped is what the editor held when swap_history was called
NavFrom(text) == [orig |-> text, ups |-> 0, downs |-> 0, bumped |-> None]

\* the input thread when it is spawned: bytes is what stdin will yield
InputThreadNew(bytes) ==
    [sent |-> 0, pc |-> "reading", stdin |-> bytes, unread |-> bytes, eof_seen |-> FALSE]

ChannelsInit ==
    /\ req_queue = <<>>
    /\ resp_queue = <<>>
    /\ resp_open = TRUE
    /\ ded_queue = <<>>
    /\ client = [pc |-> "running", death_count |-> 0, last |-> "", sent |-> 0,
                 die_sent |-> FALSE, returned |-> 0, panic_msg |-> ""]
    /\ now = 0
    /\ term_ok = TRUE
    /\ history_call = NoHistoryCall
    /\ nav = NavFrom(<<>>)
    /\ built = LineBuildNew
    /\ drawn = NoDraw

\* the process after its one call of InputOutput::new, in the default build
OneInstance ==
    /\ features = [global |-> TRUE]
    /\ LISO_OUTPUT_TX = Some(1)
    /\ LISO_IS_ACTIVE = FALSE
    /\ instances = <<[io |-> "alive", worker |-> "running", die |-> FALSE]>>

WorkerNew(mode, capture_stderr) ==
    [pc |-> IF mode = "tty" THEN "outer" ELSE "pipe", mode |-> mode,
     capture_stderr |-> capture_stderr, result |-> "running",
     die_pending |-> 0, drained |-> 0, die_seen |-> FALSE,
     handled_seq |-> 0, in_order |-> TRUE, closure |-> "none",
     batch |-> "off", woke_with |-> 0, owed |-> 0, early |-> 0, rolled |-> 0,
     cut |-> FALSE, ctrl_z |-> FALSE]

\* the requests the worker handles after it took Die off the queue
CountDrained(w) == IF w.die_seen THEN [w EXCEPT !.drained = @ + 1] ELSE w

\* the worker takes req off the queue to handle it: handled_seq is the number
\* of the handle's request taken last, in_order whether each was the next one
TakeRequest(w, req) ==
    IF req.seq = 0 THEN w
    ELSE [w EXCEPT !.in_order = @ /\ req.seq = w.handled_seq + 1,
                   !.handled_seq = req.seq]

\* what became of the closure of a SuspendAndRun request the worker took:
\* how is what the closure found, "none" when the worker never called it
RunClosure(w, req, how) ==
    IF req.kind # "SuspendAndRun" THEN w
    ELSE [w EXCEPT !.closure = IF how = "none" THEN "not_run" ELSE how]

\* the request is the key Control-Z
IsCtrlZ(req) == req.kind = "Key" /\ req.a /\ req.code = "Char" /\ req.n = 122

\* the worker woke up with req and handled it as s while pending requests
\* waited behind it: woke_with and owed count them, early and rolled the
\* repaints made since (the batches are followed unless batch is "off")
BatchWake(w, pending, req, s) ==
    IF worker.batch = "off" THEN w ELSE
    [w EXCEPT !.batch = "open", !.woke_with = pending, !.owed = pending,
              !.early = s.rollouts, !.rolled = s.rollouts, !.cut = FALSE,
              !.ctrl_z = IsCtrlZ(req) /\ s.rollouts > 0]

\* the inner loop took req off the queue and handled it as s
BatchTake(w, req, s) ==
    IF worker.batch = "off" THEN w ELSE
    [w EXCEPT !.owed = Max(@ - 1, 0), !.early = @ + s.rollouts,
              !.rolled = @ + s.rollouts,
              !.ctrl_z = @ \/ (IsCtrlZ(req) /\ s.rollouts > 0)]

\* the inner loop took Die off the queue: without capture-stderr it breaks
BatchDie(w) ==
    IF worker.batch = "off" THEN w ELSE
    [w EXCEPT !.owed = Max(@ - 1, 0), !.cut = @ \/ ~w.capture_stderr]

\* state.rollout()? at the end of the batch ended as s
BatchEnd(w, s) ==
    IF worker.batch = "open"
    THEN [w EXCEPT !.batch = IF s.result = "ok" THEN "painted" ELSE "open",
                   !.rolled = @ + s.rollouts]
    ELSE w

\* the blocking / dying recv at the head of the outer loop, and the call of
\* state.handle on the request it yields
WorkerRecv ==
    /\ worker.pc = "outer"
    /\ IF req_queue = <<>>
       THEN /\ dying
            /\ worker' = [worker EXCEPT !.pc = "teardown"]
            /\ last_handled' = NothingHandledNow
            /\ UNCHANGED <<term, remembered_output, rollout_needed, raw_mode, ttyVars,
                           chanVars>>
       ELSE LET req == Head(req_queue)
            IN /\ req_queue' = Tail(req_queue)
               /\ IF req.kind = "Die"
                  THEN /\ worker' = [worker EXCEPT !.pc = "teardown",
                                        !.die_pending = IF worker.die_seen THEN @
                                                        ELSE Len(Tail(req_queue)),
                                        !.die_seen = TRUE]
                       /\ last_handled' = NothingHandledNow
                       /\ UNCHANGED <<term, remembered_output, rollout_needed,
                                      raw_mode, ttyVars, resp_queue, ded_queue>>
                  ELSE \E s \in {handle(State, req)} :
                       /\ CanSend(s)
                       /\ Commit(s)
                       /\ worker' = BatchWake(
                                        RunClosure(TakeRequest(CountDrained(After(s, "inner")),
                                                               req),
                                                   req, s.closure),
                                        Len(Tail(req_queue)), req, s)
                       /\ last_handled' = Handled(req, s)
                       /\ resp_queue' = resp_queue \o s.tx
                       /\ ded_queue' = ded_queue \o s.ded
    /\ UNCHANGED <<resp_open, envVars, dying, heartbeat, client, restVars>>

\* one turn of the inner loop: try_recv and what follows it
WorkerDrain ==
    /\ worker.pc = "inner"
    /\ IF req_queue = <<>>
       THEN /\ worker' = [worker EXCEPT !.pc = "rollout"]
            /\ UNCHANGED <<term, remembered_output, rollout_needed, raw_mode, ttyVars,
                           chanVars, dying, last_handled>>
       ELSE LET req == Head(req_queue)
            IN /\ req_queue' = Tail(req_queue)
               /\ IF req.kind = "Die"
                  THEN /\ dying' = TRUE
                       /\ worker' = BatchDie([worker EXCEPT
                                        !.pc = IF worker.capture_stderr THEN "inner"
                                               ELSE "rollout",
                                        !.die_pending = IF worker.die_seen THEN @
                                                        ELSE Len(Tail(req_queue)),
                                        !.die_seen = TRUE])
                       /\ UNCHANGED <<term, remembered_output, rollout_needed,
                                      raw_mode, ttyVars, resp_queue, ded_queue,
                                      last_handled>>
                  ELSE \E s \in {handle(State, req)} :
                       /\ CanSend(s)
                       /\ Commit(s)
                       /\ worker' = BatchTake(
                                        RunClosure(TakeRequest(CountDrained(After(s, "inner")),
                                                               req),
                                                   req, s.closure),
                                        req, s)
                       /\ last_handled' = Handled(req, s)
                       /\ resp_queue' = resp_queue \o s.tx
                       /\ ded_queue' = ded_queue \o s.ded
                       /\ UNCHANGED dying
    /\ UNCHANGED <<resp_open, envVars, heartbeat, client, restVars>>

\* state.rollout()? at the end of a batch
WorkerRollout ==
    /\ worker.pc = "rollout"
    /\ \E s \in {rollout(State)} :
          /\ Commit(s)
          /\ worker' = BatchEnd(After(s, "outer"), s)
    /\ last_handled' = NothingHandledNow
    /\ UNCHANGED <<chanVars, envVars, dying, heartbeat, client, restVars>>

\* state.cleanup(): Crossterminal::cleanup suspends unless suspended
cleanup(st) == IF ~st.term.suspended THEN suspend_term(st) ELSE st

\* after the loop: rollin, cleanup, disable_raw_mode, each followed by ?
Teardown(st) ==
    LET s1 == rollin(st)
        s2 == cleanup(s1)
    IN IF s1.result # "ok" THEN s1
       ELSE IF s2.result # "ok" THEN s2
       ELSE [s2 EXCEPT !.raw_mode = FALSE]

WorkerTeardown ==
    /\ worker.pc = "teardown"
    /\ \E s \in {Teardown(State)} :
          /\ Commit(s)
          /\ worker' = [worker EXCEPT !.pc = "return",
                                      !.result = IF s.result = "ok" THEN "ok"
                                                 ELSE s.result]
    /\ UNCHANGED <<chanVars, envVars, dying, heartbeat, client, last_handled,
                   restVars>>

\* tty_worker / pipe_worker returns: its locals go (ded_tx with them), then
\* its parameters in reverse order, tx before rx
WorkerDropTx ==
    /\ worker.pc = "return"
    /\ resp_open' = FALSE
    /\ worker' = [worker EXCEPT !.pc = "drop_rx"]
    /\ UNCHANGED <<term, remembered_output, rollout_needed, raw_mode, ttyVars,
                   req_queue, resp_queue, ded_queue, envVars, dying, heartbeat,
                   client, last_handled, restVars>>

WorkerDropRx ==
    /\ worker.pc = "drop_rx"
    /\ worker' = [worker EXCEPT !.pc = "done"]
    /\ UNCHANGED <<term, remembered_output, rollout_needed, raw_mode, ttyVars,
                   chanVars, envVars, dying, heartbeat, client, last_handled,
                   restVars>>

\* the receiver of the request channel exists until the worker dropped it
ReqOpen == worker.pc # "done"
\* the sender of the deadline channel exists while tty_worker runs
DedTxOpen == worker.pc \notin {"drop_rx", "done"}

\* one turn of pipe_worker's request loop
PipeWorkerStep ==
    /\ worker.pc = "pipe"
    /\ req_queue # <<>>
    /\ LET req == Head(req_queue)
       IN /\ req_queue' = Tail(req_queue)
          /\ worker' = IF req.kind = "Die"
                       THEN [worker EXCEPT !.pc = "return", !.result = "ok",
                                           !.die_pending = Len(Tail(req_queue)),
                                           !.die_seen = TRUE]
                       ELSE RunClosure(TakeRequest(worker, req), req, "none")
          /\ resp_queue' = IF req.kind = "RawInput"
                           THEN Append(resp_queue, [kind |-> "Input", text |-> req.text])
                           ELSE IF req.kind = "Custom"
                           THEN Append(resp_queue, [kind |-> "Custom", text |-> <<req.n>>])
                           ELSE resp_queue
    /\ UNCHANGED <<term, remembered_output, rollout_needed, raw_mode, ttyVars,
                   resp_open, ded_queue, envVars, dying, heartbeat, client,
                   last_handled, restVars>>

tstate == <<term, remembered_output, rollout_needed, raw_mode, ttyVars>>

\* the heartbeat thread takes a deadline: recv() with no deadline held,
\* recv_timeout() otherwise
HeartbeatRecv ==
    /\ heartbeat.pc = "run"
    /\ ded_queue # <<>>
    /\ heartbeat' = [heartbeat EXCEPT !.deadlines = Append(@, Head(ded_queue))]
    /\ ded_queue' = Tail(ded_queue)
    /\ UNCHANGED <<tstate, req_queue, resp_queue, resp_open, envVars, worker, dying,
                   client, last_handled, restVars>>

\* now >= deadlines[0]: the deadline is removed, Heartbeat is sent, and the
\* thread leaves its loop (break on Ok, return on Err)
HeartbeatFire ==
    /\ heartbeat.pc = "run"
    /\ heartbeat.deadlines # <<>>
    /\ now >= Head(heartbeat.deadlines)
    /\ heartbeat' = [pc |-> "exited", deadlines |-> Tail(heartbeat.deadlines)]
    /\ req_queue' = IF ReqOpen THEN Append(req_queue, ReqHeartbeat) ELSE req_queue
    /\ UNCHANGED <<tstate, resp_queue, resp_open, ded_queue, envVars, worker, dying,
                   client, last_handled, restVars>>

\* recv / recv_timeout report that the sender is gone
HeartbeatDisconnected ==
    /\ heartbeat.pc = "run"
    /\ ded_queue = <<>>
    /\ ~DedTxOpen
    /\ heartbeat' = [heartbeat EXCEPT !.pc = "exited"]
    /\ UNCHANGED <<tstate, chanVars, envVars, worker, dying, client, last_handled,
                   restVars>>

\* a panic on the client thread runs the process-wide panic hook too
ClientPanicHook(t) ==
    IF ~t.suspended /\ term_ok /\ worker.mode = "tty"
    THEN [suspend(t) EXCEPT !.suspended = FALSE] ELSE t

\* a channel that hands over the newest message first
Enqueue_Newest(queue, msg) == <<msg>> \o queue

\* std::sync::mpsc::Sender::send: the channel keeps the order of the sends
Enqueue(queue, msg) == Append(queue, msg)

\* Output::send: panics when the worker has dropped the request receiver
ClientSend(req) ==
    /\ client.pc = "running"
    /\ IF ReqOpen
       THEN /\ req_queue' = Enqueue(req_queue, [req EXCEPT !.seq = client.sent + 1])
            /\ client' = [client EXCEPT !.sent = @ + 1]
            /\ UNCHANGED <<term, raw_mode>>
       ELSE /\ client' = [client EXCEPT !.pc = "panicked",
                                        !.panic_msg = "Liso output has stopped"]
            /\ term' = ClientPanicHook(term)
            /\ raw_mode' = IF worker.mode = "tty" /\ ~term.suspended THEN FALSE
                           ELSE raw_mode
            /\ UNCHANGED req_queue
    /\ UNCHANGED <<remembered_output, rollout_needed, ttyVars, resp_queue, resp_open,
                   ded_queue, envVars, worker, dying, heartbeat, last_handled,
                   restVars>>

\* the input thread sends what it read, and stops when the send fails
InputSend(req) ==
    /\ ReqOpen
    /\ req_queue' = Append(req_queue, req)
    /\ input_thread' = [input_thread EXCEPT !.sent = @ + 1]
    /\ UNCHANGED instVars
    /\ UNCHANGED <<tstate, resp_queue, resp_open, ded_queue, envVars, worker, dying,
                   heartbeat, client, last_handled, history_call, nav, built, drawn>>

\* BufRead::read_line: the bytes up to and including the first newline, or
\* all that is left before the end of input (none at the end of input)
read_line(bytes) ==
    IF \E i \in 1..Len(bytes) : bytes[i] = NL
    THEN SubSeq(bytes, 1, CHOOSE i \in 1..Len(bytes) :
                              bytes[i] = NL /\ \A j \in 1..(i - 1) : bytes[j] # NL)
    ELSE bytes

RECURSIVE StripLineEnd(_)
\* while buf.ends_with('\n') || buf.ends_with('\r') { buf.pop(); }
StripLineEnd(buf) ==
    IF buf # <<>> /\ buf[Len(buf)] \in {NL, CR}
    THEN StripLineEnd(SubSeq(buf, 1, Len(buf) - 1))
    ELSE buf

\* one turn of the loop of pipe_worker's input thread: read_line, strip the
\* line end, send RawInput; the thread leaves the loop when the send fails
PipeInputRead ==
    /\ worker.mode = "pipe"
    /\ input_thread.pc = "reading"
    /\ LET buf == read_line(input_thread.unread)
           rest == SubSeq(input_thread.unread, Len(buf) + 1, Len(input_thread.unread))
           it == [input_thread EXCEPT !.unread = rest, !.eof_seen = @ \/ buf = <<>>]
       IN IF ReqOpen
          THEN /\ req_queue' = Append(req_queue, ReqRawInput(StripLineEnd(buf)))
               /\ input_thread' = [it EXCEPT !.sent = @ + 1]
          ELSE /\ input_thread' = [it EXCEPT !.pc = "stopped"]
               /\ UNCHANGED req_queue
    /\ UNCHANGED instVars
    /\ UNCHANGED <<tstate, resp_queue, resp_open, ded_queue, envVars, worker, dying,
                   heartbeat, client, last_handled, history_call, nav, built, drawn>>

\* InputOutput::report_death
report_death(c) ==
    LET n == SaturatingInc(c.death_count)
    IN IF n >= MAX_DEATH_COUNT
       THEN [c EXCEPT !.death_count = n, !.pc = "panicked",
                      !.panic_msg = "Client program is looping forever"]
       ELSE [c EXCEPT !.death_count = n, !.last = "Dead"]

\* a receiver that reports the closed channel before the responses left in it
RxRecv_ClosedFirst == IF ~resp_open THEN "Closed"
                      ELSE IF resp_queue # <<>> THEN "Some" ELSE "Empty"

\* what rx.recv / rx.try_recv yields: a response, None / Disconnected once the
\* channel is closed and empty, nothing yet otherwise
RxRecv == IF resp_queue # <<>> THEN "Some"
          ELSE IF ~resp_open THEN "Closed" ELSE "Empty"

\* read_blocking, read_async, read_timeout, read_deadline, try_read returning
\* a response or Dead
ClientRead ==
    /\ client.pc = "running"
    /\ RxRecv # "Empty"
    /\ IF RxRecv = "Some"
       THEN /\ client' = [client EXCEPT !.last = Head(resp_queue).kind,
                                        !.returned = @ + 1]
            /\ resp_queue' = Tail(resp_queue)
            /\ UNCHANGED <<term, raw_mode>>
       ELSE /\ client' = report_death(client)
            /\ term' = IF client'.pc = "panicked" THEN ClientPanicHook(term) ELSE term
            /\ raw_mode' = IF client'.pc = "panicked" /\ worker.mode = "tty"
                              /\ ~term.suspended
                           THEN FALSE ELSE raw_mode
            /\ UNCHANGED resp_queue
    /\ UNCHANGED <<remembered_output, rollout_needed, ttyVars, req_queue, resp_open,
                   ded_queue, envVars, worker, dying, heartbeat, last_handled,
                   restVars>>

\* drop / blocking_die: actually_blocking_die sends Die, or returns at once
\* when the send fails
ClientDrop ==
    /\ client.pc = "running"
    /\ IF ReqOpen
       THEN /\ req_queue' = Append(req_queue, ReqDie)
            /\ client' = [client EXCEPT !.pc = "dying", !.die_sent = TRUE]
       ELSE /\ client' = [client EXCEPT !.pc = "dropped"]
            /\ UNCHANGED req_queue
    /\ UNCHANGED <<tstate, resp_queue, resp_open, ded_queue, envVars, worker, dying,
                   heartbeat, last_handled, restVars>>

\* a drop that leaves its loop on the first response of any kind
ClientDropPoll_AnyResponse ==
    /\ client.pc = "dying"
    /\ RxRecv # "Empty"
    /\ IF RxRecv = "Some"
       THEN /\ client' = [client EXCEPT !.last = Head(resp_queue).kind,
                                        !.returned = @ + 1, !.pc = "dropped"]
            /\ resp_queue' = Tail(resp_queue)
            /\ UNCHANGED <<term, raw_mode>>
       ELSE /\ client' = LET c == report_death(client)
                         IN IF c.pc = "panicked" THEN c ELSE [c EXCEPT !.pc = "dropped"]
            /\ term' = IF client'.pc = "panicked" THEN ClientPanicHook(term) ELSE term
            /\ raw_mode' = IF client'.pc = "panicked" /\ worker.mode = "tty"
                              /\ ~term.suspended
                           THEN FALSE ELSE raw_mode
            /\ UNCHANGED resp_queue
    /\ UNCHANGED <<remembered_output, rollout_needed, ttyVars, req_queue, resp_open,
                   ded_queue, envVars, worker, dying, heartbeat, last_handled,
                   restVars>>

\* one turn of the try_read loop of actually_blocking_die
ClientDropPoll ==
    /\ client.pc = "dying"
    /\ RxRecv # "Empty"
    /\ IF RxRecv = "Some"
       THEN /\ client' = [client EXCEPT !.last = Head(resp_queue).kind,
                                        !.returned = @ + 1]
            /\ resp_queue' = Tail(resp_queue)
            /\ UNCHANGED <<term, raw_mode>>
       ELSE /\ client' = LET c == report_death(client)
                         IN IF c.pc = "panicked" THEN c ELSE [c EXCEPT !.pc = "dropped"]
            /\ term' = IF client'.pc = "panicked" THEN ClientPanicHook(term) ELSE term
            /\ raw_mode' = IF client'.pc = "panicked" /\ worker.mode = "tty"
                              /\ ~term.suspended
                           THEN FALSE ELSE raw_mode
            /\ UNCHANGED resp_queue
    /\ UNCHANGED <<remembered_output, rollout_needed, ttyVars, req_queue, resp_open,
                   ded_queue, envVars, worker, dying, heartbeat, last_handled,
                   restVars>>

\* time passes
Tick ==
    /\ now' = now + 1
    /\ UNCHANGED <<tstate, chanVars, term_ok, worker, dying, heartbeat, client,
                   last_handled, restVars>>

\* the terminal goes away: from now on writes to it fail
TermBreaks ==
    /\ term_ok
    /\ term_ok' = FALSE
    /\ UNCHANGED <<tstate, chanVars, now, worker, dying, heartbeat, client,
                   last_handled, restVars>>

-----------------------------------------------------------------------------
(* The line editor: requests reach an idle TTY worker one at a time.       *)

MaxInput == 2           \* code points in the input line
MaxHistory == 1         \* History::set_limit
MaxNotices == 1         \* deadlines waiting in the deadline channel
MaxPresses == 2         \* consecutive completion keys
MaxClip == 1            \* code points in the clipboard

PromptLine == add_text(LineNew, <<62>>)
NoticeLine == add_text(LineNew, <<110>>)
EditorChars == {97, COMBINING}

KeyRequests ==
    {ReqKey(FALSE, "Char", c) : c \in EditorChars}
    \cup {ReqKey(FALSE, code, 0) :
            code \in {"Left", "Right", "Home", "End", "Backspace", "Delete",
                      "Enter", "Up", "Down", "Tab"}}
    \cup {ReqKey(TRUE, "Char", c) : c \in {99, 100, 103, 107, 117, 119, 121}}

EditorRequests ==
    KeyRequests
    \cup {ReqRawInput(<<97, 2>>), ReqRawInput(<<3>>)}
    \cup {ReqPrompt(Some(PromptLine), TRUE, FALSE), ReqPrompt(None, TRUE, TRUE),
          ReqPrompt(None, FALSE, FALSE)}
    \cup {ReqNotice(NoticeLine, 1)}
    \cup {ReqSetCompletor(c) :
            c \in {Some(InsertAtCursor(<<97>>)), Some(ReplaceWholeLine(<<97>>, 1))}}

\* the requests that keep the editor within the bounds: the input and the
\* clipboard stay short, one notice deadline is outstanding, and the
\* completor is tried on an editor that has neither killed nor entered text
WithinBounds(req) ==
    /\ (req.kind = "Key" /\ ~req.a /\ req.code = "Char") => Len(input) < MaxInput
    /\ req.kind = "RawInput" => Len(input) < MaxInput
    /\ (req.kind = "Key" /\ req.a /\ req.n = 107) =>
            Len(input) - CharsBefore(input, input_cursor) <= MaxClip
    /\ (req.kind = "Key" /\ req.a /\ req.n = 117) =>
            CharsBefore(input, input_cursor) <= MaxClip
    /\ (req.kind = "Key" /\ req.a /\ req.n = 121) =>
            Len(input) + Len(clipboard) <= MaxInput
    /\ (req.kind = "Key" /\ req.code = "Tab") =>
            /\ consecutive_completion_presses < MaxPresses
            /\ last_handled.tabs < MaxPresses
            /\ Len(input) < MaxInput
    /\ (req.kind = "SetCompletor" \/ (req.kind = "Key" /\ req.code = "Tab")) =>
            clipboard = <<>> /\ history.lines = <<>>
    /\ (req.kind = "Key" /\ (req.code = "Enter" \/ (req.a /\ req.n \in {107, 117}))) =>
            completor = None
    /\ req.kind = "Notice" => Len(ded_queue) < MaxNotices

EditorInit ==
    /\ TtyStateInit
    /\ ChannelsInit
    /\ input_thread = InputThreadNew(<<>>)
    /\ OneInstance
    /\ raw_mode = TRUE
    /\ worker = WorkerNew("tty", FALSE)
    /\ heartbeat = [pc |-> "run", deadlines |-> <<>>]
    /\ history = HistoryNew(Some(MaxHistory))

\* a request is sent to the idle worker: the blocking recv yields it, handle
\* runs, and the inner try_recv finds the queue empty.  The client has taken
\* the responses of earlier requests.
EditorRequest(req) ==
    /\ worker.pc = "outer"
    /\ req_queue = <<>>
    /\ WithinBounds(req)
    /\ \E s \in {handle(State, req)} :
          /\ Commit(s)
          /\ worker' = After(s, "rollout")
          /\ resp_queue' = s.tx
          /\ ded_queue' = ded_queue \o s.ded
          /\ last_handled' = Handled(req, s)
    /\ UNCHANGED <<req_queue, resp_open, envVars, dying, heartbeat, client,
                   restVars>>

EditorNext ==
    \/ \E req \in EditorRequests : EditorRequest(req)
    \/ WorkerRollout

EditorSpec == EditorInit /\ [][EditorNext]_vars

-----------------------------------------------------------------------------
(* The editor on words: letters, blanks and combining marks are typed, the  *)
(* cursor is moved, Control-W deletes, and control characters without a     *)
(* binding arrive as key events and as raw input.                           *)

MaxWord == 4            \* code points typed into the input line

WordRequests ==
    {ReqKey(FALSE, "Char", c) : c \in {97, SPACE, COMBINING}}
    \cup {ReqKey(FALSE, "Left", 0), ReqKey(TRUE, "Char", 119)}
    \cup {ReqKey(TRUE, "Char", 113), ReqRawInput(<<17>>), ReqRawInput(<<133>>)}

\* one key from the input thread, handled by TtyState::handle
WordKey(req) ==
    /\ worker.pc = "outer"
    /\ req_queue = <<>>
    /\ req.code = "Char" /\ ~req.a => Len(input) < MaxWord
    /\ \E s \in {handle(State, req)} :
          /\ Commit(s)
          /\ worker' = After(s, "rollout")
          /\ resp_queue' = s.tx
          /\ ded_queue' = ded_queue \o s.ded
          /\ last_handled' = Handled(req, s)
    /\ UNCHANGED <<req_queue, resp_open, envVars, dying, heartbeat, client,
                   restVars>>

WordNext ==
    \/ \E req \in WordRequests : WordKey(req)
    \/ WorkerRollout

WordSpec == EditorInit /\ [][WordNext]_vars

-----------------------------------------------------------------------------
(* The renderer driven directly: output_line_changes and rollin on lines   *)
(* built through the Line API.                                             *)

\* the styled runs a line is built from
RenderSegs ==
    [attr : {PlainAttr, Attr({"INVERSE"}, NoColor, NoColor), Attr(PLAIN, "red", "blue")},
     text : {<<>>, <<97>>, <<NL>>}]

RECURSIVE LineOfSegs(_, _, _)
\* set_style, set_colors, add_text for each run, as liso! and append_line do
LineOfSegs(line, segs, k) ==
    IF k > Len(segs) THEN line
    ELSE LineOfSegs(
            add_text(set_colors(set_style(line, segs[k].attr.style),
                                segs[k].attr.fg, segs[k].attr.bg),
                     segs[k].text),
            segs, k + 1)

RenderLines ==
    {LineOfSegs(LineNew, segs, 1) :
        segs \in UNION {[1..n -> RenderSegs] : n \in 0..MaxSegs}}

\* the cursor arguments a caller can pass for a line
CursorChoices(line) ==
    {None} \cup {Some(ByteIndex(line.text, k)) : k \in 1..(Len(line.text) + 1)}

RenderInit ==
    /\ TtyStateInit
    /\ ChannelsInit
    /\ input_thread = InputThreadNew(<<>>)
    /\ OneInstance
    /\ worker = WorkerNew("tty", FALSE)
    /\ heartbeat = [pc |-> "run", deadlines |-> <<>>]
    /\ history = HistoryNew(Some(MaxHistory))
    /\ raw_mode = TRUE

\* output_line_changes(new_line, cursor_pos, false, true), as rollout calls it
RenderDraw ==
    \E line \in RenderLines : \E cp \in CursorChoices(line) :
        \E res \in {output_line_changes(term, remembered_output, line, cp,
                                         FALSE, TRUE)} :
           /\ ~res.panicked
           /\ term' = res.term
           /\ remembered_output' = res.remembered
           /\ UNCHANGED <<rollout_needed, raw_mode, ttyVars, chanVars, envVars, worker,
                          dying, heartbeat, client, last_handled, restVars>>

\* rollin
RenderRollin ==
    /\ IsSome(remembered_output)
    /\ term' = rollin_term(term, remembered_output, input_allowed)
    /\ remembered_output' = None
    /\ rollout_needed' = TRUE
    /\ UNCHANGED <<raw_mode, ttyVars, chanVars, envVars, worker, dying, heartbeat,
                   client, last_handled, restVars>>

RenderNext == RenderDraw \/ RenderRollin

RenderSpec == RenderInit /\ [][RenderNext]_vars

(* Lines printed above the composite: one request per batch, among them   *)
(* Output, OutputEcho, OutputWrapped and StderrLine.                       *)

OutputLine == add_text(LineNew, <<111>>)

OutputRequests ==
    {ReqOutput("Output", OutputLine), ReqOutput("OutputEcho", OutputLine),
     ReqOutput("OutputWrapped", add_text(LineNew, <<111, SPACE, 111>>)),
     ReqStderrLine(<<101, CR>>)}
    \cup {ReqKey(FALSE, "Char", 97), ReqKey(FALSE, "Backspace", 0),
          ReqKey(FALSE, "Left", 0)}
    \cup {ReqPrompt(Some(PromptLine), TRUE, FALSE), ReqStatus(Some(NoticeLine)),
          ReqNotice(add_text(set_style(LineNew, {"INVERSE"}), <<110>>), 1)}

\* the cursor is in the top row when the worker starts
OutputInit ==
    /\ term = [TermNew EXCEPT !.origin = Some(0)]
    /\ TtyFieldsInit
    /\ ChannelsInit
    /\ input_thread = InputThreadNew(<<>>)
    /\ OneInstance
    /\ raw_mode = TRUE
    /\ worker = WorkerNew("tty", FALSE)
    /\ heartbeat = [pc |-> "run", deadlines |-> <<>>]
    /\ history = HistoryNew(Some(MaxHistory))

OutputNext ==
    \/ \E req \in OutputRequests : EditorRequest(req)
    \/ WorkerRollout

OutputSpec == OutputInit /\ [][OutputNext]_vars

(* Completion: a completor is installed, the user types and presses Tab,  *)
(* the application sends prompts.                                          *)

Completors ==
    {None, Some(NoCompletion), Some(InsertAtCursor(<<>>)), Some(InsertAtCursor(<<97>>)),
     Some(ReplaceWholeLine(<<97>>, 1)), Some(ReplaceWholeLine(<<97>>, 2))}

CompletionRequests ==
    {ReqKey(FALSE, "Char", 97), ReqKey(FALSE, "Tab", 0), ReqKey(TRUE, "Char", 105),
     ReqPrompt(None, TRUE, TRUE)}
    \cup {ReqSetCompletor(c) : c \in Completors}

\* one request per batch; the user presses the completion key at most
\* MaxPresses times in a row and the input stays short
CompletionRequest(req) ==
    /\ IsCompletionKey(req) =>
            /\ consecutive_completion_presses < MaxPresses
            /\ last_handled.tabs < MaxPresses
            /\ Len(input) < MaxInput
    /\ (req.kind = "Key" /\ req.code = "Char" /\ ~req.a) => Len(input) < MaxInput
    /\ \E s \in {handle(State, req)} :
          /\ Commit(s)
          /\ worker' = After(s, "rollout")
          /\ resp_queue' = s.tx
          /\ ded_queue' = ded_queue \o s.ded
          /\ last_handled' = Handled(req, s)
    /\ worker.pc = "outer"
    /\ UNCHANGED <<req_queue, resp_open, envVars, dying, heartbeat, client,
                   restVars>>

CompletionNext ==
    \/ \E req \in CompletionRequests : CompletionRequest(req)
    \/ WorkerRollout

CompletionSpec == EditorInit /\ [][CompletionNext]_vars

(* Enter, with a History that autosaves.                                   *)

ReturnRequests ==
    {ReqKey(FALSE, "Char", 97), ReqKey(FALSE, "Up", 0), ReqKey(FALSE, "Enter", 0),
     ReqKey(TRUE, "Char", 106), ReqKey(TRUE, "Char", 109),
     ReqRawInput(<<13>>), ReqRawInput(<<NL>>),
     ReqNotice(NoticeLine, 1), ReqPrompt(None, FALSE, FALSE),
     ReqPrompt(None, TRUE, FALSE)}

\* the History the application hands to the worker
ReturnHistories ==
    {set_autosave_interval(set_autosave_handler(HistoryNew(limit), handler), interval) :
        limit \in {None, Some(MaxHistory)}, handler \in {"none", "ok", "fail"},
        interval \in {None, Some(1), Some(2)}}

ReturnInit ==
    /\ TtyStateInit
    /\ ChannelsInit
    /\ input_thread = InputThreadNew(<<>>)
    /\ OneInstance
    /\ raw_mode = TRUE
    /\ worker = WorkerNew("tty", FALSE)
    /\ heartbeat = [pc |-> "run", deadlines |-> <<>>]
    /\ history \in ReturnHistories

\* one request per batch; the deadline channel holds at most MaxNotices
\* deadlines
ReturnRequest(req) ==
    /\ (IsReturn(req) /\ add_line(history, input).res = "err") =>
            Len(ded_queue) < MaxNotices
    /\ EditorRequest(req)

ReturnNext ==
    \/ \E req \in ReturnRequests : ReturnRequest(req)
    \/ WorkerRollout

ReturnSpec == ReturnInit /\ [][ReturnNext]_vars

(* Crossterminal::set_attrs on its own: the worker asks for one set of     *)
(* attributes after another.                                              *)

AttrStyles == SUBSET {"BOLD", "DIM", "INVERSE"}
AttrColors == {NoColor, "red", "green", "blue"}

AttrInit == RenderInit

\* one call of set_attrs
SetAttrs ==
    /\ \E style \in AttrStyles, fg \in AttrColors, bg \in AttrColors :
          term' = set_attrs(term, style, fg, bg)
    /\ UNCHANGED <<remembered_output, rollout_needed, raw_mode, ttyVars, chanVars,
                   envVars, worker, dying, heartbeat, client, last_handled, restVars>>

\* one call of reset_attrs
ResetAttrs ==
    /\ term' = reset_attrs(term)
    /\ UNCHANGED <<remembered_output, rollout_needed, raw_mode, ttyVars, chanVars,
                   envVars, worker, dying, heartbeat, client, last_handled, restVars>>

AttrNext == SetAttrs \/ ResetAttrs

AttrSpec == AttrInit /\ [][AttrNext]_vars

-----------------------------------------------------------------------------
(* The raw-byte input of the full driver (Crossterminal without crossterm *)
(* input): the raw stdin thread reads chunks of bytes and sends them over *)
(* a sync_channel to the input processing thread, which parses them into  *)
(* requests.  Here input_thread holds both threads: stdin is what the     *)
(* terminal will still deliver, a sequence of bursts of bytes with a      *)
(* pause longer than ESCAPE_DELAY after each burst; chan is the channel;  *)
(* buf and start are the locals of input_thread; pc is "recv" in the      *)
(* blocking recv and "escape" in recv_timeout(ESCAPE_DELAY).              *)

\* the sequences of at most n elements of S
RECURSIVE SeqsUpTo(_, _)
SeqsUpTo(S, n) ==
    IF n = 0 THEN {<<>>}
    ELSE SeqsUpTo(S, n - 1) \cup {Append(q, x) : q \in SeqsUpTo(S, n - 1), x \in S}

ESC == 27               \* const ESCAPE: u8 = 0x1B
INPUT_CAPACITY == 1     \* sync_channel(1)
MaxTokens == 2          \* keys the user presses

EscKey == ReqKey(FALSE, "Esc", 0)
ReplacementKey == ReqKey(FALSE, "Char", 65533)

\* parse_csi_sequence: the requests it sends for the bytes after ESC
parse_csi_sequence(seq) ==
    CASE seq = <<91, 65>> -> <<ReqKey(FALSE, "Up", 0)>>
      [] seq = <<91, 66>> -> <<ReqKey(FALSE, "Down", 0)>>
      [] seq = <<91, 67>> -> <<ReqKey(FALSE, "Right", 0)>>
      [] seq = <<91, 68>> -> <<ReqKey(FALSE, "Left", 0)>>
      [] seq = <<91, 51, 126>> -> <<ReqKey(FALSE, "Delete", 0)>>
      [] seq = <<91, 72>> -> <<ReqKey(FALSE, "Home", 0)>>
      [] seq = <<91, 70>> -> <<ReqKey(FALSE, "End", 0)>>
      [] OTHER -> <<>>

\* input_thread that never waits for the bytes after an ESC
NeedsMore_Never(buf, start, waited) == FALSE

\* "if start + 1 >= buf.len()" before recv_timeout: ESC is the last byte read
\* and the thread has not waited for more yet
NeedsMore(buf, start, waited) == start + 1 >= Len(buf) /\ ~waited

\* what the processing loop leaves when it ends: the bytes from start on are
\* moved to the front of buf
ParserRests(buf, start, out) ==
    [pc |-> "recv", buf |-> SubSeq(buf, start + 1, Len(buf)), start |-> 0, out |-> out]

\* the bytes needed for the UTF-8 sequence that starts with b, 1 for a byte
\* that cannot start one
num_bytes_needed(b) == IF b >= 240 THEN 4 ELSE IF b >= 224 THEN 3 ELSE IF b >= 192 THEN 2 ELSE 1

RECURSIVE DecodeRest(_, _, _, _, _)
\* "for i in 1..num_bytes_needed": bad is the i of the first byte that is not
\* a continuation byte, 0 when there is none
DecodeRest(buf, start, n, i, code) ==
    IF i >= n THEN [bad |-> 0, code |-> code]
    ELSE IF buf[start + i + 1] < 128 \/ buf[start + i + 1] >= 192
    THEN [bad |-> i, code |-> code]
    ELSE DecodeRest(buf, start, n, i + 1, code * 64 + (buf[start + i + 1] % 64))

\* the end of the run of ASCII text that starts at start
TextEnd(buf, start) ==
    CHOOSE e \in (start + 1)..Len(buf) :
        /\ e = Len(buf) \/ buf[e + 1] >= 128 \/ buf[e + 1] = ESC
        /\ \A i \in (start + 1)..(e - 1) : buf[i + 1] < 128 /\ buf[i + 1] # ESC

RECURSIVE Process(_, _, _, _)
\* the 'processing loop of input_thread from start on; out collects the
\* requests sent; waited: recv_timeout has returned for the ESC at start
Process(buf, start, out, waited) ==
    IF start >= Len(buf) THEN ParserRests(buf, start, out)
    ELSE IF buf[start + 1] = ESC
    THEN IF NeedsMore(buf, start, waited)
         THEN [pc |-> "escape", buf |-> buf, start |-> start, out |-> out]
         ELSE IF start + 1 >= Len(buf) \/ buf[start + 2] < 32 \/ buf[start + 2] >= 127
         THEN Process(buf, start + 1, Append(out, EscKey), FALSE)
         ELSE IF buf[start + 2] = 91
         THEN LET ends == {i \in (start + 2)..(Len(buf) - 1) :
                              buf[i + 1] < 32 \/ buf[i + 1] >= 64}
              IN IF ends = {} THEN ParserRests(buf, start, out)
                 ELSE LET end == (CHOOSE i \in ends : \A j \in ends : i <= j) + 1
                      IN Process(buf, end,
                                 out \o parse_csi_sequence(SubSeq(buf, start + 2, end)),
                                 FALSE)
         ELSE Process(buf, start + 2, out, FALSE)
    ELSE IF buf[start + 1] >= 128
    THEN LET b == buf[start + 1]
             n == num_bytes_needed(b)
         IN IF n = 1 THEN Process(buf, start + 1, Append(out, ReplacementKey), FALSE)
            ELSE IF Len(buf) - start < n THEN ParserRests(buf, start, out)
            ELSE LET d == DecodeRest(buf, start, n, 1, b % (2 ^ (7 - n)))
                     code == IF d.code > 1114111 THEN 65533 ELSE d.code
                 IN IF d.bad # 0
                    THEN Process(buf, start + d.bad, Append(out, ReplacementKey), FALSE)
                    ELSE IF code >= 55296 /\ code <= 57343
                    THEN [pc |-> "panicked", buf |-> buf, start |-> start + n, out |-> out]
                    ELSE Process(buf, start + n,
                                 Append(out, ReqKey(FALSE, "Char", code)), FALSE)
    ELSE LET text_end == TextEnd(buf, start)
         IN Process(buf, text_end,
                    Append(out, ReqRawInput(SubSeq(buf, start + 1, text_end))), FALSE)

\* the keys of the script: what the terminal sends for each, and the key
\* event each stands for; after a lone ESC the user pauses
KeyBytes ==
    [esc |-> <<ESC>>, up |-> <<ESC, 91, 65>>, down |-> <<ESC, 91, 66>>,
     right |-> <<ESC, 91, 67>>, left |-> <<ESC, 91, 68>>, home |-> <<ESC, 91, 72>>,
     end |-> <<ESC, 91, 70>>, delete |-> <<ESC, 91, 51, 126>>, a |-> <<97>>,
     eacute |-> <<195, 169>>]
KeyEvents ==
    [esc |-> <<EscKey>>, up |-> <<ReqKey(FALSE, "Up", 0)>>,
     down |-> <<ReqKey(FALSE, "Down", 0)>>, right |-> <<ReqKey(FALSE, "Right", 0)>>,
     left |-> <<ReqKey(FALSE, "Left", 0)>>, home |-> <<ReqKey(FALSE, "Home", 0)>>,
     end |-> <<ReqKey(FALSE, "End", 0)>>, delete |-> <<ReqKey(FALSE, "Delete", 0)>>,
     a |-> <<>>, eacute |-> <<ReqKey(FALSE, "Char", 233)>>]
Tokens == DOMAIN KeyBytes

\* the first bytes of a key whose last bytes have not been sent yet
Tails == {<<>>, <<ESC, 91>>, <<ESC, 91, 51>>, <<195>>}

RECURSIVE Bursts(_, _, _)
\* the bursts in which the bytes of the keys arrive, cur being the burst so far
Bursts(tokens, k, cur) ==
    IF k > Len(tokens) THEN IF cur = <<>> THEN <<>> ELSE <<cur>>
    ELSE IF tokens[k] = "esc"
    THEN <<cur \o KeyBytes.esc>> \o Bursts(tokens, k + 1, <<>>)
    ELSE Bursts(tokens, k + 1, cur \o KeyBytes[tokens[k]])

RECURSIVE ExpectedKeys(_, _)
ExpectedKeys(tokens, k) ==
    IF k > Len(tokens) THEN <<>> ELSE KeyEvents[tokens[k]] \o ExpectedKeys(tokens, k + 1)

\* the two threads when Crossterminal::new has spawned them
ParserNew(tokens, tail) ==
    [pc |-> "recv", buf |-> <<>>, start |-> 0, chan |-> <<>>,
     stdin |-> Bursts(tokens, 1, <<>>) \o (IF tail = <<>> THEN <<>> ELSE <<tail>>),
     tokens |-> tokens, tail |-> tail]

ParserInit ==
    /\ TtyStateInit
    /\ ChannelsInit
    /\ OneInstance
    /\ raw_mode = TRUE
    /\ worker = WorkerNew("tty", FALSE)
    /\ heartbeat = [pc |-> "run", deadlines |-> <<>>]
    /\ history = HistoryNew(Some(MaxHistory))
    /\ input_thread \in {ParserNew(tokens, tail) :
                            tokens \in SeqsUpTo(Tokens, MaxTokens), tail \in Tails}

\* the input thread goes on as Process left it and has sent the requests
ParserGoesOn(res, stdin, chan) ==
    /\ input_thread' = [input_thread EXCEPT !.pc = res.pc, !.buf = res.buf,
                                            !.start = res.start, !.stdin = stdin,
                                            !.chan = chan]
    /\ req_queue' = req_queue \o res.out
    /\ UNCHANGED <<term, remembered_output, rollout_needed, raw_mode, ttyVars,
                   resp_queue, resp_open, ded_queue, envVars, worker, dying,
                   heartbeat, client, last_handled, history_call, nav, built, drawn,
                   instVars>>

\* the input thread where it is, nothing sent
ParserStays ==
    [pc |-> input_thread.pc, buf |-> input_thread.buf, start |-> input_thread.start,
     out |-> <<>>]

\* the raw stdin thread: read returns some of the bytes of the burst that is
\* arriving, and they are sent when the channel has room
StdinRead ==
    /\ input_thread.stdin # <<>>
    /\ Len(input_thread.chan) < INPUT_CAPACITY
    /\ \E n \in 1..Len(Head(input_thread.stdin)) :
          ParserGoesOn(ParserStays,
                       <<SubSeq(Head(input_thread.stdin), n + 1,
                                Len(Head(input_thread.stdin)))>>
                           \o Tail(input_thread.stdin),
                       Append(input_thread.chan, SubSeq(Head(input_thread.stdin), 1, n)))

\* "let wort = input_rx.recv()?" and the processing of the buffer
ParserRecv ==
    /\ input_thread.pc = "recv"
    /\ input_thread.chan # <<>>
    /\ ParserGoesOn(Process(input_thread.buf \o Head(input_thread.chan), 0, <<>>, FALSE),
                    input_thread.stdin, Tail(input_thread.chan))

\* recv_timeout(ESCAPE_DELAY) yields Ok(x)
ParserEscapeRecv ==
    /\ input_thread.pc = "escape"
    /\ input_thread.chan # <<>>
    /\ ParserGoesOn(Process(input_thread.buf \o Head(input_thread.chan),
                            input_thread.start, <<>>, TRUE),
                    input_thread.stdin, Tail(input_thread.chan))

\* recv_timeout(ESCAPE_DELAY) yields Err(Timeout): the burst has been read to
\* its end and the pause after it lasts longer than the delay
ParserTimeout ==
    /\ input_thread.pc = "escape"
    /\ input_thread.chan = <<>>
    /\ input_thread.stdin # <<>> => Head(input_thread.stdin) = <<>>
    /\ ParserGoesOn(Process(input_thread.buf, input_thread.start, <<>>, TRUE),
                    IF input_thread.stdin # <<>> THEN Tail(input_thread.stdin)
                    ELSE input_thread.stdin,
                    input_thread.chan)

\* the pause after a burst passes while the input thread is in recv
PauseElapses ==
    /\ input_thread.pc = "recv"
    /\ input_thread.chan = <<>>
    /\ input_thread.stdin # <<>> /\ Head(input_thread.stdin) = <<>>
    /\ ParserGoesOn(ParserStays, Tail(input_thread.stdin),
                    input_thread.chan)

ParserNext ==
    StdinRead \/ ParserRecv \/ ParserEscapeRecv \/ ParserTimeout \/ PauseElapses

ParserSpec == ParserInit /\ [][ParserNext]_vars

(* The input thread of the VT52 driver.  Its processing loop is taken one  *)
(* iteration at a time: pc is "loop" at the test of the while loop,       *)
(* "escape" in recv_timeout and "waited" when recv_timeout has returned.  *)

MaxVt52Bytes == 3       \* bytes the terminal sends
META == 128             \* buf[start] >= 0x80
Vt52Bytes == {ESC, 47, 97, META}

\* one iteration of "while start < buf.len()" of the VT52 input_thread, or the
\* end of the loop with the remaining bytes moved to the front of buf
Vt52Iteration(buf, start, waited) ==
    IF start >= Len(buf) THEN ParserRests(buf, start, <<>>)
    ELSE IF buf[start + 1] = ESC
    THEN IF NeedsMore(buf, start, waited)
         THEN [pc |-> "escape", buf |-> buf, start |-> start, out |-> <<>>]
         ELSE IF start + 1 >= Len(buf) \/ buf[start + 2] < 32 \/ buf[start + 2] >= 127
         THEN [pc |-> "loop", buf |-> buf, start |-> start + 1, out |-> <<EscKey>>]
         ELSE IF buf[start + 2] = 47
         THEN IF start + 2 >= Len(buf) THEN ParserRests(buf, start, <<>>)
              ELSE [pc |-> "loop", buf |-> buf, start |-> start + 3, out |-> <<>>]
         ELSE [pc |-> "loop", buf |-> buf, start |-> start + 2, out |-> <<>>]
    ELSE IF buf[start + 1] >= META
    THEN [pc |-> "loop", buf |-> buf, start |-> start, out |-> <<>>]
    ELSE [pc |-> "loop", buf |-> buf, start |-> TextEnd(buf, start),
          out |-> <<ReqRawInput(SubSeq(buf, start + 1, TextEnd(buf, start)))>>]

\* the two threads when Vt52::new has spawned them
Vt52Init ==
    /\ TtyStateInit
    /\ ChannelsInit
    /\ OneInstance
    /\ raw_mode = TRUE
    /\ worker = WorkerNew("tty", FALSE)
    /\ heartbeat = [pc |-> "run", deadlines |-> <<>>]
    /\ history = HistoryNew(Some(MaxHistory))
    /\ input_thread \in {[ParserNew(<<>>, <<>>) EXCEPT !.stdin = <<bytes>>] :
                            bytes \in SeqsUpTo(Vt52Bytes, MaxVt52Bytes) \ {<<>>}}

\* "let wort = input_rx.recv()?", the buffer extended and start = 0
Vt52Recv ==
    /\ input_thread.pc = "recv"
    /\ input_thread.chan # <<>>
    /\ ParserGoesOn([pc |-> "loop", buf |-> input_thread.buf \o Head(input_thread.chan),
                     start |-> 0, out |-> <<>>],
                    input_thread.stdin, Tail(input_thread.chan))

\* the test of the while loop and one iteration of its body
Vt52Iterate ==
    /\ input_thread.pc \in {"loop", "waited"}
    /\ ParserGoesOn(Vt52Iteration(input_thread.buf, input_thread.start,
                                  input_thread.pc = "waited"),
                    input_thread.stdin, input_thread.chan)

\* recv_timeout(ESCAPE_DELAY) yields Ok(x)
Vt52EscapeRecv ==
    /\ input_thread.pc = "escape"
    /\ input_thread.chan # <<>>
    /\ ParserGoesOn([pc |-> "waited", buf |-> input_thread.buf \o Head(input_thread.chan),
                     start |-> input_thread.start, out |-> <<>>],
                    input_thread.stdin, Tail(input_thread.chan))

\* recv_timeout(ESCAPE_DELAY) yields Err(Timeout)
Vt52Timeout ==
    /\ input_thread.pc = "escape"
    /\ input_thread.chan = <<>>
    /\ input_thread.stdin # <<>> => Head(input_thread.stdin) = <<>>
    /\ ParserGoesOn([pc |-> "waited", buf |-> input_thread.buf,
                     start |-> input_thread.start, out |-> <<>>],
                    IF input_thread.stdin # <<>> THEN Tail(input_thread.stdin)
                    ELSE input_thread.stdin,
                    input_thread.chan)

Vt52Next ==
    StdinRead \/ Vt52Recv \/ Vt52Iterate \/ Vt52EscapeRecv \/ Vt52Timeout \/ PauseElapses

Vt52Spec == Vt52Init /\ [][Vt52Next]_vars

\* The input thread runs when it can: an iteration that can change the state
\* is taken, recv_timeout returns, and a chunk in the channel is received.
Vt52FairSpec ==
    /\ Vt52Spec
    /\ WF_vars(Vt52Iterate)
    /\ WF_vars(Vt52EscapeRecv \/ Vt52Timeout)
    /\ WF_vars(Vt52Recv)

(* output_line_changes on its own: a line drawn on a cleared region, then  *)
(* other lines drawn over it, with what each call sent to the terminal.    *)

MaxRedraws == 1         \* calls of output_line_changes over one remembered line

\* the styled runs of the lines that are drawn over each other
DiffSegs ==
    [attr : {PlainAttr, Attr({"INVERSE"}, NoColor, NoColor)},
     text : {<<97>>, <<98>>, <<NL>>}]

DiffLines ==
    {LineOfSegs(LineNew, segs, 1) :
        segs \in UNION {[1..n -> DiffSegs] : n \in 0..MaxSegs}}

\* output_line_changes(new_line, cursor_pos, false, true), as rollout calls it
DiffDraw ==
    /\ drawn.redraws < MaxRedraws
    /\ \E line \in DiffLines : \E cp \in CursorChoices(line) :
        \E res \in {output_line_changes([term EXCEPT !.log = TRUE, !.ops = <<>>],
                                         remembered_output, line, cp, FALSE, TRUE)} :
           /\ ~res.panicked
           /\ term' = [res.term EXCEPT !.log = FALSE, !.ops = <<>>]
           /\ remembered_output' = res.remembered
           /\ drawn' = [old |-> remembered_output, printed |-> res.printed,
                        ops |-> res.term.ops,
                        redraws |-> IF IsSome(remembered_output)
                                    THEN drawn.redraws + 1 ELSE drawn.redraws]
           /\ UNCHANGED <<rollout_needed, raw_mode, ttyVars, chanVars, envVars, worker,
                          dying, heartbeat, client, last_handled, input_thread,
                          history_call, nav, built, instVars>>

DiffNext == DiffDraw

DiffSpec == RenderInit /\ [][DiffNext]_vars

-----------------------------------------------------------------------------
(* The worker with its channels and the threads around it.                 *)

MaxTime == 2            \* ticks of the clock
MaxClientSends == 2     \* requests the client sends before it drops
MaxKeys == 1            \* requests the input thread sends

ClientRequests == {ReqNotice(NoticeLine, 1), ReqCustom(7), ReqSuspendAndRun}
InputRequests ==
    IF worker.mode = "tty" THEN {ReqKey(FALSE, "Char", 97)}
    ELSE {ReqRawInput(<<97>>)}

\* worker(): pipe mode or TTY mode; capture-stderr is a feature of the build.
\* Only tty_worker starts a heartbeat thread and enters raw mode.
WorkerInit ==
    /\ TtyStateInit
    /\ ChannelsInit
    /\ input_thread = InputThreadNew(<<>>)
    /\ OneInstance
    /\ worker \in {WorkerNew("tty", FALSE), WorkerNew("tty", TRUE),
                   WorkerNew("pipe", FALSE)}
    /\ raw_mode = (worker.mode = "tty")
    /\ heartbeat = [pc |-> IF worker.mode = "tty" THEN "run" ELSE "exited",
                    deadlines |-> <<>>]
    /\ history = HistoryNew(Some(MaxHistory))

WorkerNext ==
    \/ \E req \in ClientRequests : client.sent < MaxClientSends /\ ClientSend(req)
    \/ \E req \in InputRequests : input_thread.sent < MaxKeys /\ InputSend(req)
    \/ ClientRead
    \/ ClientDrop
    \/ ClientDropPoll
    \/ now < MaxTime /\ Tick
    \/ worker.mode = "tty" /\ TermBreaks
    \/ HeartbeatRecv
    \/ HeartbeatFire
    \/ HeartbeatDisconnected
    \/ WorkerRecv
    \/ WorkerDrain
    \/ WorkerRollout
    \/ WorkerTeardown
    \/ WorkerDropTx
    \/ WorkerDropRx
    \/ PipeWorkerStep

WorkerSpec == WorkerInit /\ [][WorkerNext]_vars

-----------------------------------------------------------------------------
(* The batches of the TTY worker: state changes and keys queue up while the *)
(* worker is busy or asleep, and the handle is dropped at some point.       *)

MaxBatchSends == 3      \* requests the client sends before it drops

BatchRequests == {ReqStatus(Some(NoticeLine)), ReqPrompt(Some(PromptLine), TRUE, FALSE)}
BatchKeys == {ReqKey(FALSE, "Char", 97), ReqKey(TRUE, "Char", 122)}

BatchInit ==
    /\ TtyStateInit
    /\ ChannelsInit
    /\ input_thread = InputThreadNew(<<>>)
    /\ OneInstance
    /\ worker \in {[WorkerNew("tty", c) EXCEPT !.batch = "none"] : c \in BOOLEAN}
    /\ raw_mode = TRUE
    /\ heartbeat = [pc |-> "run", deadlines |-> <<>>]
    /\ history = HistoryNew(Some(MaxHistory))

BatchNext ==
    \/ \E req \in BatchRequests : client.sent < MaxBatchSends /\ ClientSend(req)
    \/ \E req \in BatchKeys : input_thread.sent < MaxKeys /\ InputSend(req)
    \/ ClientDrop
    \/ ClientDropPoll
    \/ WorkerRecv
    \/ WorkerDrain
    \/ WorkerRollout
    \/ WorkerTeardown
    \/ WorkerDropTx
    \/ WorkerDropRx

BatchSpec == BatchInit /\ [][BatchNext]_vars

\* the steps of the worker thread
WorkerThread ==
    \/ WorkerRecv
    \/ WorkerDrain
    \/ WorkerRollout
    \/ WorkerTeardown
    \/ WorkerDropTx
    \/ WorkerDropRx
    \/ PipeWorkerStep

\* the worker thread has a step to take: a request to receive (with room in
\* the deadline channel for what handling it may send), an empty queue that
\* try_recv reports, or a call that does not wait
WorkerReady ==
    \/ /\ worker.pc = "outer"
       /\ IF req_queue = <<>> THEN dying ELSE Len(ded_queue) < DED_CAPACITY
    \/ /\ worker.pc = "inner"
       /\ req_queue = <<>> \/ Len(ded_queue) < DED_CAPACITY
    \/ worker.pc \in {"rollout", "teardown", "return", "drop_rx"}
    \/ worker.pc = "pipe" /\ req_queue # <<>>

\* the worker thread and the dropping thread are scheduled: a step of theirs
\* that stays possible is taken.  For the worker thread the weak fairness
\* WF_vars(WorkerThread) is written out with WorkerReady, which implies
\* ENABLED <<WorkerThread>>_vars.
FairWorkerSpec ==
    /\ WorkerSpec
    /\ []<>(~WorkerReady) \/ []<><<WorkerThread>>_vars
    /\ WF_vars(ClientDropPoll)

-----------------------------------------------------------------------------
(* The History in the hands of the application, before it is handed to the  *)
(* worker with swap_history.                                                *)

MaxLimit == 2           \* History::set_limit
MaxFileLines == 2       \* lines of the file read_history_from reads
MaxStored == 3          \* lines in the history when add_line is called

HistoryLines == {<<97>>, <<98>>}
FileLines == HistoryLines \cup {<<97, CR>>, <<BOM, 97>>}

HistoryInit ==
    /\ TtyStateInit
    /\ ChannelsInit
    /\ OneInstance
    /\ input_thread = InputThreadNew(<<>>)
    /\ raw_mode = TRUE
    /\ worker = WorkerNew("tty", FALSE)
    /\ heartbeat = [pc |-> "run", deadlines |-> <<>>]
    /\ history \in {HistoryNew(None)} \cup {HistoryNew(Some(n)) : n \in 1..MaxLimit}

\* the application calls h on its History: op names the method, line is the
\* line add_line was given
HistoryCall(op, line, h) ==
    /\ history' = h
    /\ history_call' = [op |-> op, line |-> line, before |-> history.lines]
    /\ UNCHANGED <<term, remembered_output, rollout_needed, raw_mode, status, prompt,
                   notice, input, clipboard, input_cursor, input_allowed,
                   cur_history_index, orphaned_new_input, history_original_line,
                   completor, consecutive_completion_presses, chanVars, envVars,
                   worker, dying, heartbeat, client, last_handled, input_thread,
                   nav, built, drawn, instVars>>

HistoryNext ==
    \/ \E line \in HistoryLines :
          /\ Len(history.lines) < MaxStored
          /\ HistoryCall("add_line", line, add_line(history, line).history)
    \/ \E limit \in {None} \cup {Some(n) : n \in 1..MaxLimit} :
          HistoryCall("set_limit", <<>>, set_limit(history, limit))
    \/ \E strip \in BOOLEAN :
          HistoryCall("set_strip_duplicates", <<>>, set_strip_duplicates(history, strip))
    \/ \E file \in SeqsUpTo(FileLines, MaxFileLines) :
          HistoryCall("read_history_from", <<>>, read_history_from(history, file))

HistorySpec == HistoryInit /\ [][HistoryNext]_vars

-----------------------------------------------------------------------------
(* The user walks through the history: the InputOutput was given a History  *)
(* that holds some lines, the user types, then presses Up and Down.         *)

MaxEntries == 3         \* lines in the history the walk starts with
MaxUps == 4             \* presses of the Up key

NavInit ==
    /\ TtyStateInit
    /\ ChannelsInit
    /\ OneInstance
    /\ input_thread = InputThreadNew(<<>>)
    /\ raw_mode = TRUE
    /\ worker = WorkerNew("tty", FALSE)
    /\ heartbeat = [pc |-> "run", deadlines |-> <<>>]
    /\ history \in {read_history_from(HistoryNew(Some(MaxEntries)), file) :
                        file \in SeqsUpTo(HistoryLines, MaxEntries)}

\* the key event req reaches the idle worker, as in EditorRequest; n is what
\* the walk has become
NavKey(req, n) ==
    /\ worker.pc = "outer"
    /\ req_queue = <<>>
    /\ \E s \in {handle(State, req)} :
          /\ Commit(s)
          /\ worker' = After(s, "rollout")
          /\ resp_queue' = s.tx
          /\ ded_queue' = ded_queue \o s.ded
          /\ last_handled' = Handled(req, s)
          /\ nav' = IF n = None THEN NavFrom(s.input) ELSE Unwrap(n)
    /\ UNCHANGED <<req_queue, resp_open, envVars, dying, heartbeat, client,
                   input_thread, history_call, built, drawn, instVars>>

\* the user types a character before the walk begins
PressChar(c) ==
    /\ nav.ups = 0
    /\ Len(input) < MaxInput
    /\ NavKey(ReqKey(FALSE, "Char", c), None)

\* the user presses Up, having pressed Down not yet
PressUp ==
    /\ nav.bumped = None
    /\ nav.downs = 0
    /\ nav.ups < MaxUps
    /\ NavKey(ReqKey(FALSE, "Up", 0), Some([nav EXCEPT !.ups = @ + 1]))

\* the user presses Down, as often as Up was pressed
PressDown ==
    /\ nav.bumped = None
    /\ nav.downs < nav.ups
    /\ NavKey(ReqKey(FALSE, "Down", 0), Some([nav EXCEPT !.downs = @ + 1]))

\* InputOutput::swap_history: the History is replaced under the lock, then
\* BumpHistory is sent.  The walk ends here.
swap_history(h) ==
    /\ nav.bumped = None
    /\ history' = h
    /\ req_queue' = Append(req_queue, ReqBumpHistory)
    /\ nav' = [nav EXCEPT !.bumped = Some([index |-> cur_history_index,
                                           shadow |-> orphaned_new_input,
                                           original |-> history_original_line])]
    /\ UNCHANGED <<term, remembered_output, rollout_needed, raw_mode, status, prompt,
                   notice, input, clipboard, input_cursor, input_allowed,
                   cur_history_index, orphaned_new_input, history_original_line,
                   completor, consecutive_completion_presses, resp_queue, resp_open,
                   ded_queue, envVars, worker, dying, heartbeat, client, last_handled,
                   input_thread, history_call, built, drawn, instVars>>

NavNext ==
    \/ \E c \in {97, 99} : PressChar(c)
    \/ PressUp
    \/ PressDown
    \/ \E file \in SeqsUpTo(HistoryLines, MaxEntries) :
          swap_history(read_history_from(HistoryNew(Some(MaxEntries)), file))
    \/ WorkerRecv
    \/ WorkerDrain
    \/ WorkerRollout

NavSpec == NavInit /\ [][NavNext]_vars

(* The application replaces the History while the user walks through it:   *)
(* the input thread queues Up and Down keys, swap_history runs on another   *)
(* thread, and the worker handles what is queued in the order it was sent.  *)

MaxRaceKeys == 2        \* Up and Down keys the user presses

RaceKeys == {ReqKey(FALSE, "Up", 0), ReqKey(FALSE, "Down", 0)}

RaceInit == NavInit

RaceNext ==
    \/ \E req \in RaceKeys : input_thread.sent < MaxRaceKeys /\ InputSend(req)
    \/ \E file \in SeqsUpTo(HistoryLines, MaxEntries) :
          swap_history(read_history_from(HistoryNew(Some(MaxEntries)), file))
    \/ WorkerRecv
    \/ WorkerDrain
    \/ WorkerRollout

RaceSpec == RaceInit /\ [][RaceNext]_vars

-----------------------------------------------------------------------------
(* The application builds a Line through the public methods of Line.       *)

MaxCalls == 3           \* calls made on the Line
MaxWidth == 3           \* the width given to wrap_to_width

LineTexts ==
    {<<>>, <<97>>, <<SPACE>>, <<NL>>, <<27>>, <<127>>, <<140>>, <<8233>>,
     <<97, 27>>, <<0, 97>>, <<97, SPACE, 97>>}
LineStyles == {PLAIN, {"BOLD"}, {"INVERSE"}}
LineColors == {NoColor, "red"}
OtherLines ==
    {add_text(set_style(add_text(LineNew, <<97>>), {"BOLD"}), <<27>>),
     set_fg_color(add_text(LineNew, <<97>>), "red"),
     set_style(LineNew, {"INVERSE"}),
     add_text(set_style(add_text(LineNew, <<97, SPACE, SPACE, 97>>), {"BOLD"}), <<97>>)}

\* the text is ASCII and none of its paragraphs begins with a blank
WrapsAsModelled(text) ==
    /\ \A k \in 1..Len(text) : text[k] < 128
    /\ \A k \in 1..Len(text) : text[k] = SPACE => k > 1 /\ text[k - 1] # NL

LineInit ==
    /\ TtyStateInit
    /\ ChannelsInit
    /\ OneInstance
    /\ input_thread = InputThreadNew(<<>>)
    /\ raw_mode = TRUE
    /\ worker = WorkerNew("tty", FALSE)
    /\ heartbeat = [pc |-> "run", deadlines |-> <<>>]
    /\ history = HistoryNew(Some(MaxHistory))

\* the application calls the method op of its Line with the text arg (if it
\* takes one): asserts says no assertion of the method fails, l is the Line
\* the method leaves; a failed assertion is a panic
LineCall(op, arg, asserts, l) ==
    /\ ~built.panicked
    /\ built.calls < MaxCalls
    /\ built' = [line |-> IF asserts THEN l ELSE built.line,
                 op |-> op, arg |-> arg, before |-> built.line,
                 calls |-> built.calls + 1,
                 wrapped |-> built.wrapped \/ op = "wrap_to_width",
                 panicked |-> ~asserts]
    /\ UNCHANGED <<term, remembered_output, rollout_needed, raw_mode, ttyVars,
                   chanVars, envVars, worker, dying, heartbeat, client, last_handled,
                   input_thread, history_call, nav, drawn, instVars>>

LineNext ==
    \/ \E t \in LineTexts :
          LineCall("add_text", t, add_text_asserts(built.line, t), add_text(built.line, t))
    \/ \E nu \in LineStyles :
          LineCall("set_style", <<>>, TRUE, set_style(built.line, nu))
    \/ \E nu \in LineStyles \ {PLAIN} :
          LineCall("toggle_style", <<>>, TRUE, toggle_style(built.line, nu))
    \/ \E nu \in LineStyles \ {PLAIN} :
          LineCall("activate_style", <<>>, TRUE, activate_style(built.line, nu))
    \/ \E nu \in LineStyles \ {PLAIN} :
          LineCall("deactivate_style", <<>>, TRUE, deactivate_style(built.line, nu))
    \/ \E fg \in LineColors, bg \in LineColors :
          LineCall("set_colors", <<>>, TRUE, set_colors(built.line, fg, bg))
    \/ \E fg \in LineColors :
          LineCall("set_fg_color", <<>>, TRUE, set_fg_color(built.line, fg))
    \/ \E bg \in LineColors :
          LineCall("set_bg_color", <<>>, TRUE, set_bg_color(built.line, bg))
    \/ LineCall("reset_all", <<>>, TRUE, reset_all(built.line))
    \/ LineCall("reset_and_break", <<NL>>, add_text_asserts(built.line, <<NL>>),
                reset_and_break(built.line))
    \/ \E other \in OtherLines :
          LineCall("append_line", other.text, append_line_asserts(built.line, other),
                   append_line(built.line, other))
    \/ \E width \in 1..MaxWidth :
          /\ WrapsAsModelled(built.line.text)
          /\ LineCall("wrap_to_width", <<width>>, TRUE, wrap_to_width(built.line, width))

LineSpec == LineInit /\ [][LineNext]_vars

-----------------------------------------------------------------------------
(* Pipe mode: the input thread reads stdin line by line, pipe_worker turns  *)
(* each RawInput into an Input response.  Nobody takes the responses, so    *)
(* resp_queue is the response stream.                                       *)

MaxStdin == 3           \* bytes on stdin
MaxReads == 4           \* calls of read_line

PipeInit ==
    /\ TtyStateInit
    /\ ChannelsInit
    /\ OneInstance
    /\ input_thread \in {InputThreadNew(bytes) : bytes \in SeqsUpTo({97, NL, CR}, MaxStdin)}
    /\ worker = WorkerNew("pipe", FALSE)
    /\ raw_mode = FALSE
    /\ heartbeat = [pc |-> "exited", deadlines |-> <<>>]
    /\ history = HistoryNew(Some(MaxHistory))

PipeNext ==
    \/ input_thread.sent < MaxReads /\ PipeInputRead
    \/ PipeWorkerStep
    \/ ClientDrop
    \/ WorkerDropTx
    \/ WorkerDropRx

PipeSpec == PipeInit /\ [][PipeNext]_vars

-----------------------------------------------------------------------------
(* The process: the statics that guard InputOutput::new, and every         *)
(* InputOutput with its worker thread.  A worker is "running" until        *)
(* worker() returns, "closed" once it has dropped the response sender and  *)
(* "gone" once it has dropped the request receiver and the thread ended.   *)

MaxInstances == 3       \* calls of InputOutput::new

workerVars == <<term, remembered_output, rollout_needed, raw_mode, ttyVars, chanVars,
                envVars, worker, dying, heartbeat, client, last_handled, input_thread,
                history_call, nav, built, drawn>>

InstanceInit ==
    /\ TtyStateInit
    /\ ChannelsInit
    /\ input_thread = InputThreadNew(<<>>)
    /\ raw_mode = TRUE
    /\ worker = WorkerNew("tty", FALSE)
    /\ heartbeat = [pc |-> "run", deadlines |-> <<>>]
    /\ history = HistoryNew(Some(MaxHistory))
    /\ features \in {[global |-> TRUE], [global |-> FALSE]}
    /\ LISO_OUTPUT_TX = None
    /\ LISO_IS_ACTIVE = FALSE
    /\ instances = <<>>

\* InputOutput::new: we_are_alone is read under the LISO_OUTPUT_TX lock, held
\* until new returns, or decided by the compare_exchange on LISO_IS_ACTIVE;
\* a call that is not alone panics
InputOutputNew ==
    /\ Len(instances) < MaxInstances
    /\ IF features.global
       THEN /\ instances' = Append(instances,
                   IF LISO_OUTPUT_TX = None
                   THEN [io |-> "alive", worker |-> "running", die |-> FALSE]
                   ELSE [io |-> "panicked", worker |-> "none", die |-> FALSE])
            /\ LISO_OUTPUT_TX' = IF LISO_OUTPUT_TX = None
                                 THEN Some(Len(instances) + 1) ELSE LISO_OUTPUT_TX
            /\ UNCHANGED LISO_IS_ACTIVE
       ELSE /\ instances' = Append(instances,
                   IF ~LISO_IS_ACTIVE
                   THEN [io |-> "alive", worker |-> "running", die |-> FALSE]
                   ELSE [io |-> "panicked", worker |-> "none", die |-> FALSE])
            /\ LISO_IS_ACTIVE' = TRUE
            /\ UNCHANGED LISO_OUTPUT_TX
    /\ UNCHANGED <<features, workerVars>>

\* drop, first statement: *LISO_OUTPUT_TX.lock() = None in the global build
DropClear(i) ==
    /\ instances[i].io = "alive"
    /\ instances' = [instances EXCEPT ![i].io = "die"]
    /\ LISO_OUTPUT_TX' = IF features.global THEN None ELSE LISO_OUTPUT_TX
    /\ UNCHANGED <<features, LISO_IS_ACTIVE, workerVars>>

\* actually_blocking_die: send Die, or return at once when the send fails
DropSendDie(i) ==
    /\ instances[i].io = "die"
    /\ instances' = IF instances[i].worker # "gone"
                    THEN [instances EXCEPT ![i].io = "wait", ![i].die = TRUE]
                    ELSE [instances EXCEPT ![i].io = "leave"]
    /\ UNCHANGED <<features, LISO_OUTPUT_TX, LISO_IS_ACTIVE, workerVars>>

\* actually_blocking_die: the try_read loop ends when Dead is read, which is
\* when the response channel is closed
DropTryRead(i) ==
    /\ instances[i].io = "wait"
    /\ instances[i].worker \in {"closed", "gone"}
    /\ instances' = [instances EXCEPT ![i].io = "leave"]
    /\ UNCHANGED <<features, LISO_OUTPUT_TX, LISO_IS_ACTIVE, workerVars>>

\* drop, last statement: LISO_IS_ACTIVE.store(false) without the global feature
DropStore(i) ==
    /\ instances[i].io = "leave"
    /\ instances' = [instances EXCEPT ![i].io = "dropped"]
    /\ LISO_IS_ACTIVE' = IF features.global THEN LISO_IS_ACTIVE ELSE FALSE
    /\ UNCHANGED <<features, LISO_OUTPUT_TX, workerVars>>

\* worker() returns, after Die or on an error, and drops the response sender
InstanceWorkerReturns(i) ==
    /\ instances[i].worker = "running"
    /\ instances' = [instances EXCEPT ![i].worker = "closed"]
    /\ UNCHANGED <<features, LISO_OUTPUT_TX, LISO_IS_ACTIVE, workerVars>>

\* the worker drops the request receiver and its thread ends
InstanceWorkerEnds(i) ==
    /\ instances[i].worker = "closed"
    /\ instances' = [instances EXCEPT ![i].worker = "gone"]
    /\ UNCHANGED <<features, LISO_OUTPUT_TX, LISO_IS_ACTIVE, workerVars>>

InstanceNext ==
    \/ InputOutputNew
    \/ \E i \in 1..Len(instances) : DropClear(i)
    \/ \E i \in 1..Len(instances) : DropSendDie(i)
    \/ \E i \in 1..Len(instances) : DropTryRead(i)
    \/ \E i \in 1..Len(instances) : DropStore(i)
    \/ \E i \in 1..Len(instances) : InstanceWorkerReturns(i)
    \/ \E i \in 1..Len(instances) : InstanceWorkerEnds(i)

InstanceSpec == InstanceInit /\ [][InstanceNext]_vars

-----------------------------------------------------------------------------
(* Properties *)

\* what output_line_changes leaves on a cleared region for the remembered line
FreshDraw ==
    output_line_changes(TermNew, None, Unwrap(remembered_output).output_line,
                        Unwrap(remembered_output).cursor_pos, FALSE, TRUE).term

\* C1: after output_line_changes the screen shows what drawing the new line on
\* a cleared region shows, and the cursor is on the cell of the requested offset
C1_DiffDrawShowsNew ==
    IsSome(remembered_output) =>
        /\ ShownScreen(term) = ShownScreen(FreshDraw)
        /\ IsSome(Unwrap(remembered_output).cursor_pos) =>
               (term.row = FreshDraw.row /\ term.col = FreshDraw.col)

\* C2: in TTY mode input_cursor is at most the byte length of input and lies
\* on a code-point boundary of input after every request the worker handled
C2_CursorOnBoundary ==
    worker.mode = "tty" =>
        input_cursor <= ByteLen(input) /\ IsCharBoundary(input, input_cursor)

\* C3: after an editing key input_cursor is not immediately followed by a
\* zero-width code point, unless it is at the end of input
C3_CursorNotBeforeZeroWidth ==
    (last_handled.editing /\ last_handled.result = "ok") =>
        ~(/\ input_cursor < ByteLen(input)
          /\ IsCharBoundary(input, input_cursor)
          /\ CharWidth(CharAt(input, input_cursor)) = 0)

\* C5: a key that changed input while a notice was showing has dismissed the
\* notice in the same step and requested a rollout
C5_InputChangeDismissesNotice ==
    (/\ last_handled.kind \in {"Key", "RawInput"}
     /\ last_handled.had_notice
     /\ last_handled.input_changed
     /\ last_handled.result = "ok") =>
        notice = None /\ rollout_needed

\* C4: a notice that shows on a running TTY worker has its Heartbeat still to
\* come (the heartbeat thread runs or a Heartbeat request is queued), and
\* handling a Notice request never stops the worker
C4_NoticeIsWithdrawn ==
    /\ last_handled.kind = "Notice" => last_handled.result = "ok"
    /\ (/\ worker.mode = "tty"
        /\ worker.pc \in {"outer", "inner", "rollout"}
        /\ ~dying
        /\ IsSome(notice)) =>
            \/ heartbeat.pc = "run"
            \/ \E i \in 1..Len(req_queue) : req_queue[i].kind = "Heartbeat"

\* C6: when handling a request failed in the TTY worker, raw mode has been
\* left by the time the response channel is closed
C6_ErrorRunsTeardown ==
    (worker.mode = "tty" /\ last_handled.result = "err" /\ ~resp_open) => ~raw_mode

\* C7: a TTY worker that ended through Die has handled every request that was
\* pending in the queue when it received Die
C7_DieDrainsPending ==
    (worker.mode = "tty" /\ worker.pc = "done" /\ worker.result = "ok") =>
        worker.drained >= worker.die_pending

\* C8 as stated: a drop that has returned sent Die, the worker has terminated
\* and Dead has been observed
C8_DropObservesDead ==
    client.pc = "dropped" =>
        /\ worker.pc \in {"drop_rx", "done"}
        /\ client.die_sent
        /\ client.death_count > 0

\* C8 amended: a drop that has returned finds the worker terminated and the
\* response channel closed, and has observed Dead whenever its Die could be
\* sent; a drop that waits ends, by returning or by the panic of report_death
C8_DropWaitsForWorker ==
    /\ [](client.pc = "dropped" =>
            /\ worker.pc \in {"drop_rx", "done"}
            /\ ~resp_open
            /\ client.die_sent => client.death_count > 0)
    /\ (client.pc = "dying" ~> client.pc \in {"dropped", "panicked"})

C8_DroppedAfterDead ==
    /\ client.pc = "dropped"
    /\ client.die_sent
    /\ client.death_count = 1
    /\ client.returned > 0
    /\ worker.die_seen

\* C9: report_death panics only when Dead would be reported more than
\* MAX_DEATH_COUNT times
C9_PanicAfterNineDeads ==
    client.panic_msg = "Client program is looping forever" =>
        client.death_count > MAX_DEATH_COUNT

\* C10: once a read returned Dead, the last read returned Dead, no response
\* is left in the channel and none can be emitted any more
C10_DeadIsFinal ==
    client.death_count > 0 =>
        client.last = "Dead" /\ resp_queue = <<>> /\ ~resp_open

C10_DeadAfterResponses ==
    client.pc = "running" /\ client.death_count >= 2 /\ client.returned >= 1

\* C11: at most one InputOutput that has not finished being dropped and at
\* most one worker thread exist at any time
C11_AtMostOneInstance ==
    /\ Cardinality({i \in 1..Len(instances) :
                       instances[i].io \in {"alive", "die", "wait", "leave"}}) <= 1
    /\ Cardinality({i \in 1..Len(instances) :
                       instances[i].worker \in {"running", "closed"}}) <= 1

C13_ClosureRunsSuspended ==
    /\ worker.closure = "not_run" => worker.result \in {"err", "panic"}
    /\ worker.closure # "exposed"
    /\ (last_handled.kind = "SuspendAndRun" /\ last_handled.result = "ok")
           => ~term.suspended /\ raw_mode

\* C14: when the worker has handled Control-C, as the raw byte 0x03 or as the
\* key event Control+c, the responses of that request are exactly one Quit,
\* whatever the prompt, the input, the notice and input_allowed are
C14_CtrlCEmitsQuit ==
    last_handled.ctrl_c => resp_queue = <<[kind |-> "Quit", text |-> <<>>]>>

\* C16: when the worker has handled a Prompt request carrying
\* input_allowed = b, the editor's input_allowed is b, also when the prompt
\* line did not change and no input was cleared
C16_PromptSetsInputAllowed ==
    IsSome(last_handled.prompt_allowed)
        => input_allowed = Unwrap(last_handled.prompt_allowed)

RECURSIVE StdinLines(_)
\* the newline-terminated lines of bytes, each without its trailing CR/LF
StdinLines(bytes) ==
    IF \E i \in 1..Len(bytes) : bytes[i] = NL
    THEN <<StripLineEnd(read_line(bytes))>>
         \o StdinLines(SubSeq(bytes, Len(read_line(bytes)) + 1, Len(bytes)))
    ELSE <<>>

\* the texts of the Input responses of a response stream, in order
InputTexts(resps) ==
    LET idx == {i \in 1..Len(resps) : resps[i].kind = "Input"}
        RECURSIVE Pick(_)
        Pick(k) == IF k > Len(resps) THEN <<>>
                   ELSE IF k \in idx THEN <<resps[k].text>> \o Pick(k + 1)
                   ELSE Pick(k + 1)
    IN Pick(1)

\* C15: in pipe mode the Input responses are, in order, the newline-terminated
\* lines of stdin with trailing CR/LF stripped and nothing else, and once
\* read_line has reported the end of input the input thread has stopped
C15_InputPerStdinLine ==
    /\ Len(InputTexts(resp_queue)) <= Len(StdinLines(input_thread.stdin))
    /\ InputTexts(resp_queue)
           = SubSeq(StdinLines(input_thread.stdin), 1, Len(InputTexts(resp_queue)))
    /\ input_thread.eof_seen => input_thread.pc = "stopped"

\* C17 (as stated): a History whose limit is N stores at most N lines after
\* any sequence of add_line, set_limit, set_strip_duplicates and
\* read_history_from
C17_AtMostLimitLines ==
    IsSome(history.limit) => Len(history.lines) <= Unwrap(history.limit)

\* C17: right after add_line a History whose limit is N stores at most N
\* lines; set_limit and read_history_from remove nothing, so more than N lines
\* may be stored from such a call until the next add_line
C17_AddLineKeepsLimit ==
    (history_call.op = "add_line" /\ IsSome(history.limit))
        => Len(history.lines) <= Unwrap(history.limit)

\* add_line was called on a history that held more lines than its limit and
\* has cut it down to the limit
C17_AddLineDroppedOldest ==
    /\ history_call.op = "add_line"
    /\ IsSome(history.limit)
    /\ Len(history_call.before) > Unwrap(history.limit)
    /\ Len(history.lines) = Unwrap(history.limit)

\* how often line occurs in lines
Copies(lines, line) == Cardinality({i \in 1..Len(lines) : lines[i] = line})

\* C18 (as stated): while strip_duplicates is true no two stored lines are
\* equal, after any sequence of add_line, set_strip_duplicates and
\* read_history_from
C18_NoDuplicates ==
    history.strip_duplicates
        => \A i, j \in 1..Len(history.lines) :
               history.lines[i] = history.lines[j] => i = j

\* C18: right after add_line(line) with strip_duplicates true the history
\* holds line exactly once, as its newest entry; duplicates of other lines,
\* read from a file or added while strip_duplicates was false, stay
C18_AddLineStripsCopies ==
    (history_call.op = "add_line" /\ history.strip_duplicates)
        => /\ Copies(history.lines, history_call.line) = 1
           /\ history.lines[Len(history.lines)] = history_call.line

\* add_line was called with a line the history held twice, and one is left
C18_AddLineRemovedTwoCopies ==
    /\ history_call.op = "add_line"
    /\ history.strip_duplicates
    /\ Copies(history_call.before, history_call.line) >= 2
    /\ Copies(history.lines, history_call.line) = 1

C20_BumpKeepsEntryOrShadow ==
    (IsSome(nav.bumped) /\ req_queue = <<>> /\ IsSome(Unwrap(nav.bumped).index))
        => LET b == Unwrap(nav.bumped)
               hits == {i \in 1..Len(history.lines) :
                           history.lines[i] = Unwrap(b.original)}
           IN IF hits # {}
              THEN cur_history_index = Some((CHOOSE i \in hits : \A j \in hits : j <= i) - 1)
              ELSE input = Unwrap(b.shadow) /\ cur_history_index = None

\* C21: the text of a Line holds no C0 control character, DEL, C1 control
\* character, U+2028 or U+2029 other than newline, whatever was called on the
\* Line; and adding the text of a Line again leaves that text unchanged
C21_NoControlInText ==
    /\ \A k \in 1..Len(built.line.text) :
          /\ built.line.text[k] >= 32 \/ built.line.text[k] = NL
          /\ built.line.text[k] < 127 \/ built.line.text[k] >= 160
          /\ built.line.text[k] \notin {8232, 8233}
    /\ add_text(LineNew, built.line.text).text = built.line.text

\* add_text was given a control character, and the text holds its replacement
C21_ControlWasRewritten ==
    /\ built.op = "add_text"
    /\ \E k \in 1..Len(built.arg) : IsSubstituted(built.arg[k])
    /\ Len(built.line.text) > Len(built.before.text) + Len(built.arg)

\* what is claimed for the replacement of a control character: ^@ + c in caret
\* form below U+0020, ^? for DEL, U+XXXX for the others
CaretForm(c) ==
    IF c < 32 THEN <<94, 64 + c>>
    ELSE IF c = 127 THEN <<94, 63>>
    ELSE <<85, 43, HexDigit((c \div 4096) % 16), HexDigit((c \div 256) % 16),
           HexDigit((c \div 16) % 16), HexDigit(c % 16)>>

\* C22: add_text of a single control character appends its caret form where
\* one exists (^A..^_ for U+0001..U+001F, ^? for DEL), the U+XXXX form for C1
\* controls, U+2028 and U+2029, in an element of its own with Inverse toggled
C22_CaretFormWhereOneExists ==
    (built.op = "add_text" /\ ~built.panicked /\ Len(built.arg) = 1
        /\ IsSubstituted(built.arg[1]))
        => /\ built.line.text = built.before.text \o CaretForm(built.arg[1])
           /\ \E e \in 1..Len(built.line.elements) :
                 /\ built.line.elements[e].start = ByteLen(built.before.text)
                 /\ built.line.elements[e].end = ByteLen(built.line.text)
                 /\ ("INVERSE" \in built.line.elements[e].style)
                        # ("INVERSE" \in get_style(built.before))

\* the elements of line are in ascending order, cover the text without gap or
\* overlap, and only the last may be empty
ElementsCover(line) ==
    /\ line.elements = <<>> => line.text = <<>>
    /\ line.elements # <<>> =>
          /\ line.elements[1].start = 0
          /\ line.elements[LastIdx(line)].end = ByteLen(line.text)
    /\ \A e \in 1..Len(line.elements) :
          /\ line.elements[e].start <= line.elements[e].end
          /\ e < LastIdx(line) =>
                /\ line.elements[e].start < line.elements[e].end
                /\ line.elements[e + 1].start = line.elements[e].end

\* C23: after any sequence of add_text, style setters, colour setters,
\* reset_all and append_line the elements are in ascending order, cover the
\* text contiguously, only the last may be empty, and no assertion has failed
C23_ElementsCoverText ==
    ~built.wrapped => ElementsCover(built.line) /\ ~built.panicked

\* three calls have left a Line of at least three elements
C23_ThreeElements ==
    built.calls = 3 /\ ~built.wrapped /\ Len(built.line.elements) >= 3

\* C24: no two adjacent elements of a Line carry the same style, foreground
\* and background
C24_AdjacentElementsDiffer ==
    \A e \in 1..(Len(built.line.elements) - 1) :
        \/ built.line.elements[e].style # built.line.elements[e + 1].style
        \/ built.line.elements[e].fg # built.line.elements[e + 1].fg
        \/ built.line.elements[e].bg # built.line.elements[e + 1].bg

\* text without its blanks and newlines
Inked(text) == SelectSeq(text, LAMBDA c : c # SPACE /\ c # NL)

\* no word of the text is wider than width, so that wrapping it only replaces
\* runs of blanks
NoWordBroken(text, width) ==
    \A k \in 1..Len(text) :
        \E j \in k..(k + width) : j > Len(text) \/ text[j] \in {SPACE, NL}

\* C25: when wrap_to_width has replaced the blanks between wrapped pieces by
\* newlines in a Line whose elements covered its text, the elements still are
\* in ascending order, contiguous and cover exactly the text, and nothing but
\* blanks and newlines has changed in the text
C25_WrapKeepsElementsCovering ==
    (/\ built.op = "wrap_to_width"
     /\ ElementsCover(built.before)
     /\ NoWordBroken(built.before.text, built.arg[1]))
        => /\ ElementsCover(built.line)
           /\ Inked(built.line.text) = Inked(built.before.text)

RECURSIVE BreaksEmitted(_, _, _)
\* the line breaks output_line_changes counts in cur_breaks while it goes
\* through the characters of a composite
BreaksEmitted(chars, i, s) ==
    IF i > Len(chars) THEN s.cur_breaks
    ELSE BreaksEmitted(chars, i + 1, sim_output_char(s, chars[i]))

\* C26: the cursor column kept in remembered_output after a rollout is at
\* least 0 and less than the width of the terminal, and the cursor row is at
\* least 0 and at most the number of line breaks emitted for the composite
C26_RememberedCursorInBounds ==
    IsSome(remembered_output)
        => /\ Unwrap(remembered_output).cursor_left >= 0
           /\ Unwrap(remembered_output).cursor_left < TermWidth
           /\ Unwrap(remembered_output).cursor_top >= 0
           /\ Unwrap(remembered_output).cursor_top
                  <= BreaksEmitted(LineChars(Unwrap(remembered_output).output_line), 1,
                                   RenderLocals(term, 0, 0))

C28_PressesCountTabs ==
    IsSome(last_handled.called_with)
        => /\ Unwrap(last_handled.called_with) >= 1
           /\ Unwrap(last_handled.called_with) = last_handled.tabs

RECURSIVE BackOverBlanks(_, _)
\* from p code points into the text, back over the whitespace and the
\* zero-width characters directly before
BackOverBlanks(text, p) ==
    IF p > 0 /\ (IsWhitespace(text[p]) \/ CharWidth(text[p]) = 0)
    THEN BackOverBlanks(text, p - 1) ELSE p

RECURSIVE BackOverWord(_, _)
\* from p code points into the text, back over the run of characters that
\* are not whitespace
BackOverWord(text, p) ==
    IF p > 0 /\ ~IsWhitespace(text[p]) THEN BackOverWord(text, p - 1) ELSE p

RECURSIVE ForwardOverMarks(_, _)
\* from p code points into the text, forward over the zero-width characters
\* that follow a character before p
ForwardOverMarks(text, p) ==
    IF p > 0 /\ p < Len(text) /\ CharWidth(text[p + 1]) = 0
    THEN ForwardOverMarks(text, p + 1) ELSE p

\* the byte offset where the word before the cursor starts: after the
\* whitespace before it
WordStart(text, cursor) ==
    ByteIndex(text, BackOverWord(text, BackOverBlanks(text, CharsBefore(text, cursor))) + 1)

\* the same, when the zero-width characters that directly follow the
\* whitespace before the word are left with that whitespace
WordStartAfterMarks(text, cursor) ==
    ByteIndex(text, ForwardOverMarks(text,
        BackOverWord(text, BackOverBlanks(text, CharsBefore(text, cursor)))) + 1)

\* C29 as stated: Control-W with the cursor after the start of the input
\* deletes from the cursor back over the whitespace and zero-width characters
\* directly before it and then over the run of non-whitespace before that,
\* nothing else, and leaves the cursor where the deleted range began
C29_DeletesBackToWordStart ==
    (IsSome(last_handled.word_from) /\ last_handled.result = "ok"
        /\ Unwrap(last_handled.word_from).input_cursor > 0)
        => LET from == Unwrap(last_handled.word_from)
           IN /\ input = StrRemove(from.input, WordStart(from.input, from.input_cursor),
                                   from.input_cursor)
              /\ input_cursor = WordStart(from.input, from.input_cursor)

\* C29: Control-W with the cursor after the start of the input deletes from
\* the cursor back over the whitespace and zero-width characters directly
\* before it and then over the run of non-whitespace before that, except for
\* the zero-width characters that directly follow the whitespace before that
\* run; it deletes nothing else and leaves the cursor where the deleted range
\* began
C29_DeletesWordKeepsMarks ==
    (IsSome(last_handled.word_from) /\ last_handled.result = "ok"
        /\ Unwrap(last_handled.word_from).input_cursor > 0)
        => LET from == Unwrap(last_handled.word_from)
           IN /\ input = StrRemove(from.input,
                                   WordStartAfterMarks(from.input, from.input_cursor),
                                   from.input_cursor)
              /\ input_cursor = WordStartAfterMarks(from.input, from.input_cursor)

\* Control-W has deleted a word and the blanks after it and has left a blank
\* before it
C29_WordAndBlanksDeleted ==
    /\ IsSome(last_handled.word_from) /\ last_handled.result = "ok"
    /\ Unwrap(last_handled.word_from).input = <<97, SPACE, 97, SPACE>>
    /\ Unwrap(last_handled.word_from).input_cursor = 4
    /\ input = <<97, SPACE>>
    /\ input_cursor = 2

SameAsOld(old, new) ==
    {k \in 1..Min(Len(old), Len(new)) :
        /\ old[k].ch = new[k].ch /\ old[k].style = new[k].style
        /\ old[k].fg = new[k].fg /\ old[k].bg = new[k].bg
        /\ \A j \in 1..(k - 1) : (old[j].ch = NL) = (new[j].ch = NL)}

\* C31: output_line_changes prints no character of new that equals the
\* character at the same place of old (code point, style, colours) unless a
\* newline stood against a non-newline earlier, and sends nothing to the
\* terminal when line and cursor offset are the remembered ones
C31_EqualCharsNotReprinted ==
    (IsSome(drawn.old) /\ IsSome(remembered_output)) =>
        LET old == LineChars(Unwrap(drawn.old).output_line)
            new == LineChars(Unwrap(remembered_output).output_line)
        IN /\ \A k \in SameAsOld(old, new) : new[k].index \notin drawn.printed
           /\ (/\ Unwrap(drawn.old).output_line = Unwrap(remembered_output).output_line
               /\ Unwrap(drawn.old).cursor_pos = Unwrap(remembered_output).cursor_pos)
              => drawn.ops = <<>>

\* "ab" drawn over "aa": the first character is skipped, the second printed
C31_OnlySecondPrinted ==
    /\ IsSome(drawn.old) /\ IsSome(remembered_output)
    /\ Unwrap(drawn.old).output_line.text = <<97, 97>>
    /\ Unwrap(remembered_output).output_line.text = <<97, 98>>
    /\ Unwrap(drawn.old).output_line.elements = Unwrap(remembered_output).output_line.elements
    /\ drawn.printed = {1}

\* C32: when output_line runs for Output, OutputEcho, OutputWrapped or
\* StderrLine nothing is remembered and, if a composite was on screen, the
\* cursor is in column 0 of the composite's first row and rollout_needed is
\* set; the rollout that ends the batch then draws the composite again, from
\* the row below the printed line
C32_RolledInBeforeOutput ==
    [][/\ IsSome(last_handled'.out_at) =>
            LET o == Unwrap(last_handled'.out_at)
            IN /\ o.rem = None
               /\ IsSome(o.was) =>
                    /\ o.col = 0
                    /\ Some(o.row) = o.origin
                    /\ o.rollout_needed /\ rollout_needed'
       /\ (IsSome(last_handled.out_at) /\ IsSome(Unwrap(last_handled.out_at).was)
           /\ worker.pc = "rollout" /\ worker'.pc = "outer") =>
            /\ IsSome(remembered_output') /\ ~rollout_needed'
            /\ Unwrap(term'.origin) <= term.row
            /\ (Unwrap(term'.origin) >= 1 /\ term.row >= 1) =>
                    term'.cells[Unwrap(term'.origin) - 1] = term.cells[term.row - 1]
      ]_vars

\* a line was printed while the cursor stood in the second row of the composite
C32_PrintedFromSecondRow ==
    /\ IsSome(last_handled.out_at)
    /\ IsSome(Unwrap(last_handled.out_at).was)
    /\ Unwrap(Unwrap(last_handled.out_at).was).cursor_top = 1

\* what Enter leaves, apart from the notice: the input is the last history
\* line, one Input response carries it, and the editor is empty with no place
\* in the history
EnterCommitted(e) ==
    /\ history.lines # <<>> /\ history.lines[Len(history.lines)] = e.input
    /\ resp_queue = <<[kind |-> "Input", text |-> e.input]>>
    /\ input = <<>> /\ input_cursor = 0
    /\ cur_history_index = None /\ orphaned_new_input = None
    /\ history_original_line = None

C34_StripsBeforeLimit ==
    history_call.op = "add_line" =>
        LET before == history_call.before
            line == history_call.line
            stripped == IF history.strip_duplicates
                        THEN SelectSeq(before, LAMBDA x : x # line) ELSE before
        IN /\ (/\ history.strip_duplicates /\ IsSome(history.limit)
               /\ Len(before) = Unwrap(history.limit)
               /\ Copies(before, line) >= 1)
              => history.lines = Append(stripped, line)
           /\ \E k \in 0..Len(stripped) :
                 history.lines = Append(SubSeq(stripped, k + 1, Len(stripped)), line)

\* the older of two lines was added again to a History with limit 2: the
\* other line stayed and the added line is last
C34_OldestAddedAgain ==
    /\ history_call.op = "add_line"
    /\ history.strip_duplicates /\ history.limit = Some(2)
    /\ Len(history_call.before) = 2
    /\ history_call.before[1] = history_call.line
    /\ history_call.before[2] # history_call.line
    /\ history.lines = <<history_call.before[2], history_call.line>>

\* C35: a completion key with input allowed applies what the completor
\* answers: InsertAtCursor splices the text in at input_cursor and moves the
\* cursor past it; ReplaceWholeLine sets input and cursor when the cursor is
\* within the new line and panics, input unchanged, when it is not; no answer
\* or no completor changes neither
C35_CompletionApplied ==
    [][(last_handled'.tabs = last_handled.tabs + 1 /\ input_allowed) =>
         IF ~IsSome(completor) \/ Unwrap(completor).kind = "None"
         THEN input' = input /\ input_cursor' = input_cursor
              /\ last_handled'.result = "ok"
         ELSE LET c == Unwrap(completor)
              IN IF c.kind = "InsertAtCursor"
                 THEN /\ last_handled'.result = "ok"
                      /\ input' = SubSeq(input, 1, CharsBefore(input, input_cursor))
                                       \o c.text
                                       \o SubSeq(input,
                                                 CharsBefore(input, input_cursor) + 1,
                                                 Len(input))
                      /\ input_cursor' = input_cursor + ByteLen(c.text)
                 ELSE IF c.cursor <= ByteLen(c.text)
                 THEN /\ last_handled'.result = "ok"
                      /\ input' = c.text /\ input_cursor' = c.cursor
                 ELSE last_handled'.result = "panic" /\ input' = input
      ]_vars

\* C36: when every byte the terminal sent has been parsed, bursts read in
\* chunks of any size, the key events sent are exactly those of the keys
\* pressed, one Esc for an ESC followed by a pause and one key and no Esc for
\* each CSI sequence, and the bytes of an unfinished sequence or character
\* are still in buf
C36_KeysParsedAcrossChunks ==
    /\ input_thread.pc # "panicked"
    /\ (input_thread.pc = "recv" /\ input_thread.chan = <<>> /\ input_thread.stdin = <<>>)
        => /\ SelectSeq(req_queue, LAMBDA r : r.kind = "Key")
                = ExpectedKeys(input_thread.tokens, 1)
           /\ input_thread.buf = input_thread.tail

\* ESC then a pause, then Delete: both parsed, the thread having waited for
\* the bytes after an ESC that was the last byte of a chunk
C36_EscThenDelete ==
    /\ input_thread.tokens = <<"esc", "delete">>
    /\ input_thread.pc = "recv" /\ input_thread.chan = <<>> /\ input_thread.stdin = <<>>
    /\ req_queue = <<EscKey, ReqKey(FALSE, "Delete", 0)>>

\* C37: the processing loop of the VT52 input thread ends for every chunk:
\* whenever the thread is in the loop it comes back to the blocking recv
C37_Vt52LoopEnds ==
    (input_thread.pc = "loop") ~> (input_thread.pc = "recv")

\* C38: after set_attrs(style, fg, bg), from whatever attributes were in
\* effect, the terminal shows style, fg and bg, and cur_style, cur_fg and
\* cur_bg are what the terminal shows
C38_AttrsInEffect ==
    [][\A style \in AttrStyles, fg \in AttrColors, bg \in AttrColors :
          term' = set_attrs(term, style, fg, bg)
          => /\ term'.sgr = Attr(style, fg, bg)
             /\ Attr(term'.cur_style, term'.cur_fg, term'.cur_bg) = term'.sgr]_vars

\* the composite of the state the worker holds: the status and a line break,
\* then the notice, or else the prompt and the input
CompositeNow ==
    LET top == IF IsSome(status) THEN reset_and_break(Unwrap(status)) ELSE LineNew
    IN IF IsSome(notice) THEN append_line(top, Unwrap(notice).line)
       ELSE add_text(IF IsSome(prompt) THEN append_line(top, Unwrap(prompt)) ELSE top,
                     input)

\* the cursor offset that belongs to the composite
CompositeCursorNow ==
    IF IsSome(notice) THEN None
    ELSE Some(LineLen(IF IsSome(status) THEN reset_and_break(Unwrap(status)) ELSE LineNew)
              + (IF IsSome(prompt) THEN LineLen(Unwrap(prompt)) ELSE 0)
              + input_cursor)

\* C39: when the worker is back at the head of its loop, the rollout that
\* ended the batch done, rollout_needed is false, and a remembered output is
\* the composite of the current status, notice, prompt and input with the
\* cursor offset that belongs to it
C39_RememberedIsComposite ==
    (worker.mode = "tty" /\ worker.pc = "outer")
    => /\ ~rollout_needed
       /\ IsSome(remembered_output)
          => /\ Unwrap(remembered_output).output_line = CompositeNow
             /\ Unwrap(remembered_output).cursor_pos = CompositeCursorNow

\* a batch has ended with a status, a prompt and input on the screen and the
\* cursor moved back into the input
C39_CursorInsideInputDrawn ==
    /\ worker.pc = "outer"
    /\ IsSome(status) /\ IsSome(prompt) /\ ~IsSome(notice)
    /\ input = <<97, 97>> /\ input_cursor = 1
    /\ IsSome(remembered_output)
    /\ Unwrap(remembered_output).cursor_pos
         = Some(LineLen(reset_and_break(Unwrap(status))) + LineLen(Unwrap(prompt)) + 1)

\* C40: when the request the worker handles next is an Up or a Down key, a
\* present cur_history_index is below the number of lines of the shared
\* history and the shadow is present, whenever swap_history ran
C40_IndexWithinHistory ==
    (/\ worker.pc \in {"outer", "inner"}
     /\ req_queue # <<>>
     /\ Head(req_queue) \in RaceKeys
     /\ IsSome(cur_history_index))
    => /\ Unwrap(cur_history_index) < Len(history.lines)
       /\ IsSome(orphaned_new_input)

====
